---------------------------- MODULE Spec2Model ----------------------------
(***************************************************************************)
(* A model of cognicap's measurement core:                                 *)
(*   SemanticDriftMeasurement   (protocols/semantic-drift-protocol)        *)
(*   CognitiveOverloadDetector  (core/cognitive-overload)                  *)
(*   ExperimentScheduler        (experiments/experiment-catalog)           *)
(*   ExperimentRunner           (experiments/experiment-runner)            *)
(*                                                                         *)
(* JavaScript numbers are modelled as exact rationals (records [n, d] in   *)
(* lowest terms, d > 0); the non-finite values the experiment runner can   *)
(* produce, NaN and the infinities, are the records with d = 0.            *)
(* A text sample is modelled by the sequence of tokens that                *)
(* sample.split(/\s+/) yields on it.                                       *)
(***************************************************************************)
EXTENDS Integers, Sequences, FiniteSets, TLC

(***************************************************************************)
(* Exact rational arithmetic.                                              *)
(***************************************************************************)
Abs(x) == IF x < 0 THEN -x ELSE x

RECURSIVE GCD(_, _)
GCD(a, b) == IF b = 0 THEN a ELSE GCD(b, a % b)

Frac(n, d) ==
  LET g == GCD(Abs(n), d)
  IN  IF n = 0 THEN [n |-> 0, d |-> 1] ELSE [n |-> n \div g, d |-> d \div g]

Zero == Frac(0, 1)

One == Frac(1, 1)

\* the sums and products are taken over the least common denominator, which
\* keeps the integers small
FAdd(a, b) ==
  LET g == GCD(a.d, b.d)
  IN  Frac(a.n * (b.d \div g) + b.n * (a.d \div g), (a.d \div g) * b.d)

FSub(a, b) == FAdd(a, [n |-> -b.n, d |-> b.d])

FMul(a, b) ==
  LET g1 == GCD(Abs(a.n), b.d)
      g2 == GCD(Abs(b.n), a.d)
  IN  Frac((a.n \div g1) * (b.n \div g2), (a.d \div g2) * (b.d \div g1))

\* a / b for b # 0
FDiv(a, b) == IF b.n > 0 THEN FMul(a, [n |-> b.d, d |-> b.n])
                         ELSE FMul(a, [n |-> -b.d, d |-> -b.n])

FLe(a, b) ==
  LET g == GCD(a.d, b.d)
  IN  a.n * (b.d \div g) <= b.n * (a.d \div g)

FLt(a, b) ==
  LET g == GCD(a.d, b.d)
  IN  a.n * (b.d \div g) < b.n * (a.d \div g)

FMax(a, b) == IF FLe(a, b) THEN b ELSE a

FMin(a, b) == IF FLe(a, b) THEN a ELSE b

(***************************************************************************)
(* Bounds of the model and the inputs drawn.                               *)
(***************************************************************************)
Agents == {"a1", "a2"}

\* longest samples list handed to establishBaseline for agent a1
MaxSamples == 2

\* cap on the drift tracker's append-only measurement log
MaxLog == 1

S1 == <<"the", "api", "uses", "the", "database", "schema">>

S2 == <<"database", "schema", "design", "matters">>

S3 == <<"the", "api", "schema", "is", "consistent">>

S4 == <<"API", "Schema">>

S5 == <<"the", "design">>

Samples == {S1, S2, S3, S4, S5}

\* the lists of at most k distinct elements of S
RECURSIVE ListsUpTo(_, _)
ListsUpTo(S, k) ==
  IF k = 0 THEN {<< >>}
  ELSE LET shorter == ListsUpTo(S, k - 1)
       IN  shorter \cup UNION {{Append(q, x) :
                                   x \in {y \in S : \A i \in DOMAIN q : q[i] # y}} :
                                 q \in shorter}

\* the sample lists establishBaseline is called with: for agent a1 every list
\* of at most MaxSamples distinct samples, for the other agent the empty list
\* and the single samples
SampleLists(agentId) ==
  IF agentId = "a1" THEN ListsUpTo(Samples, MaxSamples)
  ELSE {<< >>} \cup {<<s>> : s \in Samples}

(***************************************************************************)
(* SemanticDriftMeasurement                                                *)
(***************************************************************************)
VARIABLES
  baseline,       \* Map agentId -> {terminology, patterns, sampleCount}
  measurements,   \* the length of the append-only log of {agentId, drift,
                  \* timestamp}, whose entries the class never reads
  driftRet,       \* the last call on the drift tracker and what it returned
  established,    \* agentId -> the samples of the latest establishBaseline
                  \* call, for the agents it was ever called for
  overwrote       \* per agent: whether an establishBaseline call replaced a
                  \* baseline that held term counts

driftVars == <<baseline, measurements, driftRet, established, overwrote>>

\* String.prototype.toLowerCase on the tokens of the input alphabet
ToLowerCase(w) ==
  CASE w = "API" -> "api"
    [] w = "Schema" -> "schema"
    [] OTHER -> w

TechnicalTerms ==
  {"api", "sdk", "cli", "gui", "ui", "ux",
   "async", "sync", "await", "promise",
   "function", "method", "class", "interface",
   "database", "query", "index", "schema",
   "agent", "protocol", "orchestrat",
   "semantic", "cognitive", "drift", "overload"}

isTechnicalTerm(word) == word \in TechnicalTerms

\* Map.get(k) || 0
Get(m, k) == IF k \in DOMAIN m THEN m[k] ELSE 0

\* Map.set(k, v)
MapSet(m, k, v) == (k :> v) @@ m

EmptyMap == << >>

\* the inner loop of extractTerminology over the words of one sample
RECURSIVE CountWords(_, _)
CountWords(words, terms) ==
  IF words = << >> THEN terms
  ELSE LET word == ToLowerCase(Head(words))
           counted == IF isTechnicalTerm(word)
                        THEN MapSet(terms, word, Get(terms, word) + 1)
                        ELSE terms
       IN  \* the test makes TLC compute this word's count before the next
           IF DOMAIN counted = {} THEN CountWords(Tail(words), counted)
           ELSE CountWords(Tail(words), counted)

\* the outer loop of extractTerminology over samples[lo..hi], in order (the
\* range is split in halves, which keeps the evaluation shallow)
RECURSIVE ExtractRange(_, _, _, _)
ExtractRange(samples, lo, hi, terms) ==
  IF lo > hi THEN terms
  ELSE IF lo = hi THEN CountWords(samples[lo], terms)
  ELSE LET mid == (lo + hi) \div 2
           half == ExtractRange(samples, lo, mid, terms)
       IN  IF DOMAIN half = {} THEN ExtractRange(samples, mid + 1, hi, half)
           ELSE ExtractRange(samples, mid + 1, hi, half)

ExtractInto(samples, terms) == ExtractRange(samples, 1, Len(samples), terms)

extractTerminology(samples) == ExtractInto(samples, EmptyMap)

\* avgLength = sum / samples.length: 0/0 is NaN on an empty list, no exception
analyzePatterns(samples) ==
  [avgLength |-> IF Len(samples) = 0 THEN "NaN" ELSE "finite"]

\* a slip that adds both frequencies to total where the code takes their maximum
RECURSIVE DriftLoopSum(_, _, _, _, _)
DriftLoopSum(terms, base, current, similarity, total) ==
  IF terms = {} THEN [similarity |-> similarity, total |-> total]
  ELSE LET term == CHOOSE t \in terms : TRUE
           baselineFreq == Get(base, term)
           currentFreq == Get(current, term)
           hit == baselineFreq > 0 \/ currentFreq > 0
           lo == IF baselineFreq < currentFreq THEN baselineFreq ELSE currentFreq
       IN  DriftLoopSum(terms \ {term}, base, current,
                        IF hit THEN similarity + lo ELSE similarity,
                        IF hit THEN total + baselineFreq + currentFreq ELSE total)

\* the loop of calculateDrift: accumulates similarity and total over allTerms
RECURSIVE DriftLoop(_, _, _, _, _)
DriftLoop(terms, base, current, similarity, total) ==
  IF terms = {} THEN [similarity |-> similarity, total |-> total]
  ELSE LET term == CHOOSE t \in terms : TRUE
           baselineFreq == Get(base, term)
           currentFreq == Get(current, term)
           hit == baselineFreq > 0 \/ currentFreq > 0
           lo == IF baselineFreq < currentFreq THEN baselineFreq ELSE currentFreq
           hi == IF baselineFreq < currentFreq THEN currentFreq ELSE baselineFreq
       IN  DriftLoop(terms \ {term}, base, current,
                     IF hit THEN similarity + lo ELSE similarity,
                     IF hit THEN total + hi ELSE total)

\* a slip that forgets the complement: returns the similarity ratio itself
calculateDriftNoComplement(base, current) ==
  LET allTerms == DOMAIN base \cup DOMAIN current
      acc == DriftLoop(allTerms, base, current, 0, 0)
  IN  IF acc.total > 0
        THEN Frac(acc.similarity, acc.total)
        ELSE Zero

calculateDrift(base, current) ==
  LET allTerms == DOMAIN base \cup DOMAIN current
      acc == DriftLoop(allTerms, base, current, 0, 0)
  IN  IF acc.total > 0
        THEN FSub(One, Frac(acc.similarity, acc.total))
        ELSE Zero

\* a slip that drops the early return and compares against an empty profile
measureDriftNoGuard(bl, agentId, newSample) ==
  calculateDrift(IF agentId \in DOMAIN bl THEN bl[agentId].terminology ELSE EmptyMap,
                 extractTerminology(<<newSample>>))

\* the value measureDrift returns
measureDriftValue(bl, agentId, newSample) ==
  IF agentId \notin DOMAIN bl THEN Zero
  ELSE calculateDrift(bl[agentId].terminology, extractTerminology(<<newSample>>))

\* a slip that folds the new samples into the profile already stored
baselineEntryMerged(bl, agentId, samples) ==
  [terminology |-> ExtractInto(samples,
                     IF agentId \in DOMAIN bl THEN bl[agentId].terminology
                                              ELSE EmptyMap),
   patterns |-> analyzePatterns(samples),
   sampleCount |-> Len(samples)]

\* the object establishBaseline stores under agentId
baselineEntry(bl, agentId, samples) ==
  [terminology |-> extractTerminology(samples),
   patterns |-> analyzePatterns(samples),
   sampleCount |-> Len(samples)]

DriftInit ==
  /\ baseline = EmptyMap
  /\ measurements = 0
  /\ driftRet = [op |-> "none", agentId |-> "a1", sample |-> << >>,
                 value |-> Zero, threw |-> "none", stored |-> FALSE]
  /\ established = EmptyMap
  /\ overwrote = [a \in Agents |-> FALSE]

\* establishBaseline never throws on a list: it always reaches baseline.set
EstablishBaseline(agentId, samples) ==
  /\ baseline' = MapSet(baseline, agentId, baselineEntry(baseline, agentId, samples))
  /\ driftRet' = [op |-> "establishBaseline", agentId |-> agentId,
                  sample |-> << >>, value |-> Zero, threw |-> "none",
                  stored |-> TRUE]
  /\ established' = MapSet(established, agentId, samples)
  /\ overwrote' = [overwrote EXCEPT ![agentId] =
                     @ \/ (agentId \in DOMAIN baseline
                             /\ baseline[agentId].terminology # EmptyMap)]
  /\ UNCHANGED measurements

MeasureDrift(agentId, newSample) ==
  /\ measurements' = IF agentId \in DOMAIN baseline THEN measurements + 1
                                                     ELSE measurements
  /\ driftRet' = [op |-> "measureDrift", agentId |-> agentId,
                  sample |-> newSample,
                  value |-> measureDriftValue(baseline, agentId, newSample),
                  threw |-> "none", stored |-> FALSE]
  /\ UNCHANGED <<baseline, established, overwrote>>

(***************************************************************************)
(* CognitiveOverloadDetector                                               *)
(***************************************************************************)
VARIABLES
  metrics,     \* Map agentId -> the retained CognitiveMetrics, oldest first
  baselines,   \* Map agentId -> the derived {latency, contextUsage, consistency}
  detRet,      \* the last call on the detector and what it returned
  recorded,    \* agentId -> every record ever passed to recordMetric, in order
  fed          \* the number of recordMetric calls made since the first state

detVars == <<metrics, baselines, detRet, recorded, fed>>

\* agentMetrics.length > 1000
HistoryCap == 1000

\* metrics.length < 20 in updateBaseline
MinHistory == 20

\* slice(-50) in updateBaseline
HealthyWindow == 50

\* healthyMetrics.length > 10
MinHealthy == 10

\* getRecentMetrics(agentId, 10) in calculateCognitiveLoad
LoadWindow == 10

\* getRecentMetrics(agentId, 5) in detectOverload
DetectWindow == 5

\* thresholds.latency.baselineMs
BaselineMs == 1000

thresholds ==
  [contextWindow |-> [safe |-> Frac(60, 100), warning |-> Frac(75, 100),
                      critical |-> Frac(90, 100)],
   latency |-> [baselineMs |-> Frac(BaselineMs, 1),
                warningMultiplier |-> Frac(15, 10),
                criticalMultiplier |-> Frac(2, 1)],
   errorRate |-> [acceptable |-> Frac(2, 100), warning |-> Frac(5, 100),
                  critical |-> Frac(10, 100)],
   semanticDrift |-> [acceptable |-> Frac(15, 100), warning |-> Frac(25, 100),
                      critical |-> Frac(40, 100)]]

\* Array.prototype.slice(-count)
LastN(s, count) ==
  IF Len(s) <= count THEN s ELSE SubSeq(s, Len(s) - count + 1, Len(s))

\* a slip that drops the newest record on overflow (pop for shift)
pushCappedDropNewest(agentMetrics, metric) ==
  LET pushed == Append(agentMetrics, metric)
  IN  IF Len(pushed) > HistoryCap THEN SubSeq(pushed, 1, Len(pushed) - 1) ELSE pushed

\* agentMetrics.push(metric); if (agentMetrics.length > 1000) agentMetrics.shift()
pushCapped(agentMetrics, metric) ==
  LET pushed == Append(agentMetrics, metric)
  IN  IF Len(pushed) > HistoryCap THEN Tail(pushed) ELSE pushed

\* xs.reduce((a, b) => a + b, 0) over the numbers xs; the sum of xs[lo..hi] is
\* taken by halves, which is the same rational and keeps the evaluation shallow
RECURSIVE SumRange(_, _, _)
SumRange(xs, lo, hi) ==
  IF lo > hi THEN Zero
  ELSE IF lo = hi THEN xs[lo]
  ELSE LET mid == (lo + hi) \div 2
       IN  FAdd(SumRange(xs, lo, mid), SumRange(xs, mid + 1, hi))

SumSeq(xs) == SumRange(xs, 1, Len(xs))

\* a non-empty sequence's mean: reduce(...) / length
Mean(xs) == FDiv(SumSeq(xs), Frac(Len(xs), 1))

Field(ms, f) == [i \in 1..Len(ms) |-> ms[i][f]]

isHealthy(m) ==
  FLt(m.errorRate, Frac(5, 100)) /\ FLt(Frac(85, 100), m.semanticConsistency)

\* a slip that takes the last records of the history as they are, unfiltered
updateBaselineUnfiltered(ms, bls, agentId) ==
  LET agentMetrics == IF agentId \in DOMAIN ms THEN ms[agentId] ELSE << >>
      healthyMetrics == LastN(agentMetrics, HealthyWindow)
  IN  IF Len(agentMetrics) < MinHistory THEN bls
      ELSE IF Len(healthyMetrics) > MinHealthy
        THEN MapSet(bls, agentId,
               [latency |-> Mean(Field(healthyMetrics, "processingLatency")),
                contextUsage |-> Mean(Field(healthyMetrics, "contextWindowUsage")),
                consistency |-> Mean(Field(healthyMetrics, "semanticConsistency"))])
        ELSE bls

\* a slip that drops the stored baseline when too few healthy records remain
updateBaselineResetting(ms, bls, agentId) ==
  LET agentMetrics == IF agentId \in DOMAIN ms THEN ms[agentId] ELSE << >>
      healthyMetrics == LastN(SelectSeq(agentMetrics, isHealthy), HealthyWindow)
  IN  IF Len(agentMetrics) < MinHistory THEN bls
      ELSE IF Len(healthyMetrics) > MinHealthy
        THEN MapSet(bls, agentId,
               [latency |-> Mean(Field(healthyMetrics, "processingLatency")),
                contextUsage |-> Mean(Field(healthyMetrics, "contextWindowUsage")),
                consistency |-> Mean(Field(healthyMetrics, "semanticConsistency"))])
        ELSE [a \in DOMAIN bls \ {agentId} |-> bls[a]]

\* updateBaseline: the baselines map after it ran for agentId
updateBaseline(ms, bls, agentId) ==
  LET agentMetrics == IF agentId \in DOMAIN ms THEN ms[agentId] ELSE << >>
      healthyMetrics == LastN(SelectSeq(agentMetrics, isHealthy), HealthyWindow)
  IN  IF Len(agentMetrics) < MinHistory THEN bls
      ELSE IF Len(healthyMetrics) > MinHealthy
        THEN MapSet(bls, agentId,
               [latency |-> Mean(Field(healthyMetrics, "processingLatency")),
                contextUsage |-> Mean(Field(healthyMetrics, "contextWindowUsage")),
                consistency |-> Mean(Field(healthyMetrics, "semanticConsistency"))])
        ELSE bls

\* a slip that keeps one history for all agents: the record is pushed onto
\* the history of every agent the detector knows
recordMetricAllAgents(ms, bls, metric) ==
  LET known == DOMAIN ms \cup {metric.agentId}
      ms2 == [a \in known |->
                pushCapped(IF a \in DOMAIN ms THEN ms[a] ELSE << >>, metric)]
  IN  [metrics |-> ms2, baselines |-> updateBaseline(ms2, bls, metric.agentId)]

\* recordMetric: the detector's {metrics, baselines} after the call
recordMetric(ms, bls, metric) ==
  LET agentMetrics == IF metric.agentId \in DOMAIN ms THEN ms[metric.agentId]
                                                      ELSE << >>
      ms2 == MapSet(ms, metric.agentId, pushCapped(agentMetrics, metric))
  IN  [metrics |-> ms2, baselines |-> updateBaseline(ms2, bls, metric.agentId)]

getRecentMetrics(ms, agentId, count) ==
  LastN(IF agentId \in DOMAIN ms THEN ms[agentId] ELSE << >>, count)

createDefaultBaseline ==
  [latency |-> thresholds.latency.baselineMs,
   contextUsage |-> Frac(40, 100),
   consistency |-> Frac(90, 100)]

\* this.baselines.get(agentId) || this.createDefaultBaseline()
baselineOf(bls, agentId) ==
  IF agentId \in DOMAIN bls THEN bls[agentId] ELSE createDefaultBaseline

\* a slip that leaves the ratio unclamped
normalizeMetricNoClamp(value, min, max) ==
  IF max = min THEN Zero ELSE FDiv(FSub(value, min), FSub(max, min))

normalizeMetric(value, min, max) ==
  IF max = min THEN Zero
  ELSE FMax(Zero, FMin(One, FDiv(FSub(value, min), FSub(max, min))))

calculateCognitiveLoad(ms, bls, agentId) ==
  LET recent == getRecentMetrics(ms, agentId, LoadWindow)
      base == baselineOf(bls, agentId)
      contextLoad == normalizeMetric(Mean(Field(recent, "contextWindowUsage")),
                                     Zero, One)
      latencyLoad == normalizeMetric(Mean(Field(recent, "processingLatency")),
                                     base.latency,
                                     FMul(base.latency, Frac(3, 1)))
      errorLoad == normalizeMetric(Mean(Field(recent, "errorRate")),
                                   Zero, Frac(20, 100))
      driftLoad == normalizeMetric(
                     FSub(One, Mean(Field(recent, "semanticConsistency"))),
                     Zero, Frac(50, 100))
  IN  IF Len(recent) = 0 THEN Zero
      ELSE FAdd(FAdd(FMul(contextLoad, Frac(25, 100)),
                     FMul(latencyLoad, Frac(25, 100))),
                FAdd(FMul(errorLoad, Frac(30, 100)),
                     FMul(driftLoad, Frac(20, 100))))

\* a slip in which a warning branch assigns severity unconditionally
checkOverwriting(acc, value, cutoffs, names) ==
  IF FLe(cutoffs.critical, value)
    THEN [severity |-> "critical",
          factors |-> Append(acc.factors, names.critical),
          recommendations |-> Append(acc.recommendations, names.criticalAdvice)]
  ELSE IF FLe(cutoffs.warning, value)
    THEN [severity |-> "warning",
          factors |-> Append(acc.factors, names.warning),
          recommendations |-> Append(acc.recommendations, names.warningAdvice)]
  ELSE acc

\* a slip that takes a value equal to its warning cutoff as below it
checkStrictWarning(acc, value, cutoffs, names) ==
  IF FLe(cutoffs.critical, value)
    THEN [severity |-> "critical",
          factors |-> Append(acc.factors, names.critical),
          recommendations |-> Append(acc.recommendations, names.criticalAdvice)]
  ELSE IF FLt(cutoffs.warning, value)
    THEN [severity |-> IF acc.severity = "none" THEN "warning" ELSE acc.severity,
          factors |-> Append(acc.factors, names.warning),
          recommendations |-> Append(acc.recommendations, names.warningAdvice)]
  ELSE acc

\* one of detectOverload's four if / else-if blocks
check(acc, value, cutoffs, names) ==
  IF FLe(cutoffs.critical, value)
    THEN [severity |-> "critical",
          factors |-> Append(acc.factors, names.critical),
          recommendations |-> Append(acc.recommendations, names.criticalAdvice)]
  ELSE IF FLe(cutoffs.warning, value)
    THEN [severity |-> IF acc.severity = "none" THEN "warning" ELSE acc.severity,
          factors |-> Append(acc.factors, names.warning),
          recommendations |-> Append(acc.recommendations, names.warningAdvice)]
  ELSE acc

\* avgMetrics of detectOverload, for a non-empty recent window
avgMetrics(recent) ==
  [contextWindow |-> Mean(Field(recent, "contextWindowUsage")),
   latency |-> Mean(Field(recent, "processingLatency")),
   errorRate |-> Mean(Field(recent, "errorRate")),
   semanticDrift |-> FSub(One, Mean(Field(recent, "semanticConsistency")))]

\* the latency cutoffs of detectOverload: baseline.latency times the multipliers
latencyCutoffs(base) ==
  [critical |-> FMul(base.latency, thresholds.latency.criticalMultiplier),
   warning |-> FMul(base.latency, thresholds.latency.warningMultiplier)]

detectOverload(ms, bls, agentId) ==
  LET recent == getRecentMetrics(ms, agentId, DetectWindow)
      avg == avgMetrics(recent)
      base == baselineOf(bls, agentId)
      c0 == [severity |-> "none", factors |-> << >>, recommendations |-> << >>]
      c1 == check(c0, avg.contextWindow, thresholds.contextWindow,
                  [critical |-> "Critical context window usage",
                   criticalAdvice |-> "Reduce context size or implement chunking",
                   warning |-> "High context window usage",
                   warningAdvice |-> "Consider context optimization"])
      c2 == check(c1, avg.latency, latencyCutoffs(base),
                  [critical |-> "Critical processing latency",
                   criticalAdvice |-> "Investigate performance bottlenecks",
                   warning |-> "Elevated processing latency",
                   warningAdvice |-> "Monitor system resources"])
      c3 == check(c2, avg.errorRate, thresholds.errorRate,
                  [critical |-> "Critical error rate",
                   criticalAdvice |-> "Review agent training and protocols",
                   warning |-> "Elevated error rate",
                   warningAdvice |-> "Check recent changes and inputs"])
      c4 == check(c3, avg.semanticDrift, thresholds.semanticDrift,
                  [critical |-> "Critical semantic drift",
                   criticalAdvice |-> "Retrain agent or reset context",
                   warning |-> "Significant semantic drift",
                   warningAdvice |-> "Reinforce training protocols"])
  IN  IF Len(recent) = 0
        THEN [isOverloaded |-> FALSE, severity |-> "none",
              factors |-> << >>, recommendations |-> << >>]
        ELSE [isOverloaded |-> c4.severity # "none", severity |-> c4.severity,
              factors |-> c4.factors, recommendations |-> c4.recommendations]

NoResult ==
  [isOverloaded |-> FALSE, severity |-> "none",
   factors |-> << >>, recommendations |-> << >>]

RecordMetric(metric) ==
  LET after == recordMetric(metrics, baselines, metric)
  IN  /\ metrics' = after.metrics
      /\ baselines' = after.baselines
      /\ recorded' = MapSet(recorded, metric.agentId,
                            Append(IF metric.agentId \in DOMAIN recorded
                                     THEN recorded[metric.agentId] ELSE << >>,
                                   metric))
      /\ detRet' = [op |-> "recordMetric", agentId |-> metric.agentId,
                    load |-> Zero, overload |-> NoResult]
      /\ fed' = fed + 1

CalculateCognitiveLoad(agentId) ==
  /\ detRet' = [op |-> "calculateCognitiveLoad", agentId |-> agentId,
                load |-> calculateCognitiveLoad(metrics, baselines, agentId),
                overload |-> NoResult]
  /\ UNCHANGED <<metrics, baselines, recorded, fed>>

\* a slip that stores the default baseline it falls back to
DetectOverloadStoringDefault(agentId) ==
  /\ detRet' = [op |-> "detectOverload", agentId |-> agentId, load |-> Zero,
                overload |-> detectOverload(metrics, baselines, agentId)]
  /\ baselines' = IF agentId \in DOMAIN baselines THEN baselines
                  ELSE MapSet(baselines, agentId, createDefaultBaseline)
  /\ UNCHANGED <<metrics, recorded, fed>>

DetectOverload(agentId) ==
  /\ detRet' = [op |-> "detectOverload", agentId |-> agentId, load |-> Zero,
                overload |-> detectOverload(metrics, baselines, agentId)]
  /\ UNCHANGED <<metrics, baselines, recorded, fed>>

(***************************************************************************)
(* The metric records the detector is fed.  A record's timestamp is the    *)
(* count of the records its agent has been recorded with, so that every    *)
(* record of an agent is distinct.                                         *)
(***************************************************************************)
\* records fed after the warm-up, over both agents
MaxRecords == 3

\* identical records fed to agent a1 before the first state
WarmLen == 19

\* identical records fed to agent a1 before the first state of the capacity run
CapWarmLen == 997

\* records fed after the warm-up in the capacity run
MaxCapRecords == 5

\* {contextWindowUsage, processingLatency (ms), errorRate, semanticConsistency}
Readings ==
  {[ctx |-> Frac(50, 100), lat |-> 1000, err |-> Zero, cons |-> One],
   [ctx |-> Frac(40, 100), lat |-> 0, err |-> Frac(2, 100), cons |-> Frac(90, 100)],
   [ctx |-> Frac(95, 100), lat |-> 1000, err |-> Frac(5, 100), cons |-> One],
   [ctx |-> Frac(75, 100), lat |-> 1500, err |-> Zero, cons |-> Frac(75, 100)],
   [ctx |-> One, lat |-> 5000, err |-> One, cons |-> Zero]}

Metric(agentId, timestamp, r) ==
  [agentId |-> agentId, timestamp |-> timestamp,
   contextWindowUsage |-> r.ctx, processingLatency |-> Frac(r.lat, 1),
   errorRate |-> r.err, semanticConsistency |-> r.cons,
   cognitiveLoadIndex |-> Zero]

Count(agentId) == IF agentId \in DOMAIN recorded THEN Len(recorded[agentId]) ELSE 0

\* the detector st after the recordMetric calls for agentId with reading r and
\* the timestamps from..to, made one after the other (composed by halves)
RECURSIVE FeedRange(_, _, _, _, _)
FeedRange(st, agentId, r, from, to) ==
  IF from > to THEN st
  ELSE IF from = to
    THEN recordMetric(st.metrics, st.baselines, Metric(agentId, from, r))
  ELSE LET mid == (from + to) \div 2
           half == FeedRange(st, agentId, r, from, mid)
       IN  \* the test makes TLC compute the first half before the second
           IF DOMAIN half.metrics = {} THEN half
           ELSE FeedRange(half, agentId, r, mid + 1, to)

\* a fresh detector after k recordMetric calls for agentId with reading r
Warmed(agentId, r, k) ==
  FeedRange([metrics |-> EmptyMap, baselines |-> EmptyMap], agentId, r, 1, k)

DetInitCold ==
  /\ metrics = EmptyMap
  /\ baselines = EmptyMap
  /\ recorded = EmptyMap
  /\ fed = 0
  /\ detRet = [op |-> "none", agentId |-> "a1", load |-> Zero, overload |-> NoResult]

\* a fresh detector, or one that recorded WarmLen equal records for agent a1
DetInit ==
  \/ DetInitCold
  \/ \E r \in Readings :
       LET warm == Warmed("a1", r, WarmLen)
       IN  /\ metrics = warm.metrics
           /\ baselines = warm.baselines
           /\ recorded = warm.metrics
           /\ fed = 0
           /\ detRet = [op |-> "recordMetric", agentId |-> "a1", load |-> Zero,
                        overload |-> NoResult]

(***************************************************************************)
(* ExperimentScheduler                                                     *)
(***************************************************************************)
VARIABLES
  experimentQueue,       \* the queued catalog entries, front first; an entry
                         \* carries the ticket (1, 2, ...) of the call that
                         \* scheduled it, which the code does not keep
  activeExperiments,     \* Map experiment id -> {experiment, status}
  completedExperiments,  \* Map experiment id -> {experiment, result}
  running,               \* the runNextExperiment calls suspended at their await,
                         \* in the order their continuations are queued
  scheduled,             \* per ticket: the priority and the tickets queued then
  runOrder,              \* the tickets in the order runNextExperiment took them
  returned,              \* the tickets whose runNextExperiment call returned its
                         \* result, in the order of the returns
  status,                \* the object a getExperimentStatus call returned
  schedRet               \* the last scheduler call and what it returned

schedVars == <<experimentQueue, activeExperiments, completedExperiments,
               running, scheduled, runOrder, returned, status, schedRet>>

\* the ids of EXPERIMENT_CATALOG
CatalogIds ==
  {"exp-001-database-impact", "exp-002-specialization-efficiency",
   "exp-003-context-window-optimization",
   "exp-004-training-protocol-effectiveness",
   "exp-005-memory-strategy-impact", "exp-006-cognitive-load-distribution",
   "exp-007-error-recovery-patterns", "exp-008-vocabulary-diversity-impact",
   "exp-009-cascade-failure-prevention", "exp-010-temporal-consistency"}

\* the ids scheduleExperiment is called with: two of the catalog, one unknown
ScheduleIds ==
  {"exp-001-database-impact", "exp-002-specialization-efficiency",
   "exp-999-not-in-catalog"}

Priorities == {"high", "normal", "low"}

\* successful scheduleExperiment calls in a run
MaxScheduled == 3

\* Array.prototype.splice(index, 0, item), index counted from 0
Splice(q, index, item) ==
  SubSeq(q, 1, index) \o <<item>> \o SubSeq(q, index + 1, Len(q))

\* a slip that appends a high-priority entry where the code puts it in front
enqueueHighLast(queue, experiment, priority) ==
  IF priority = "high" THEN Append(queue, experiment)
  ELSE IF priority = "low" THEN Append(queue, experiment)
  ELSE Splice(queue, Len(queue) \div 2, experiment)

\* a slip that rounds the midpoint up
enqueueMidpointUp(queue, experiment, priority) ==
  IF priority = "high" THEN <<experiment>> \o queue
  ELSE IF priority = "low" THEN Append(queue, experiment)
  ELSE Splice(queue, (Len(queue) + 1) \div 2, experiment)

\* the queue after scheduleExperiment's unshift / push / splice
enqueue(queue, experiment, priority) ==
  IF priority = "high" THEN <<experiment>> \o queue
  ELSE IF priority = "low" THEN Append(queue, experiment)
  ELSE Splice(queue, Len(queue) \div 2, experiment)

Tickets(q) == {q[i].ticket : i \in DOMAIN q}

\* no getExperimentStatus call has returned
NoStatus == [pc |-> "none", active |-> {}, queued |-> "none", completed |-> {}]

\* Array.from(map.values()), without the order of the values
Values(m) == {m[k] : k \in DOMAIN m}

\* the result field of a call that returned no result
NoOutcome == [experimentId |-> "", hypothesisConfirmed |-> FALSE]

SchedInit ==
  /\ experimentQueue = << >>
  /\ activeExperiments = EmptyMap
  /\ completedExperiments = EmptyMap
  /\ running = << >>
  /\ scheduled = << >>
  /\ runOrder = << >>
  /\ returned = << >>
  /\ status = NoStatus
  /\ schedRet = [op |-> "none", threw |-> "none", returns |-> "none",
                 result |-> NoOutcome]

\* a slip that queues whatever id it is given, without the catalog lookup
ScheduleExperimentNoCheck(experimentId, priority) ==
  /\ experimentQueue' =
       enqueue(experimentQueue,
               [id |-> experimentId, ticket |-> Len(scheduled) + 1], priority)
  /\ scheduled' = Append(scheduled, [priority |-> priority,
                                     ahead |-> Tickets(experimentQueue)])
  /\ schedRet' = [op |-> "scheduleExperiment", threw |-> "none",
                  returns |-> "none", result |-> NoOutcome]
  /\ UNCHANGED <<activeExperiments, completedExperiments, running, runOrder,
                 returned, status>>

ScheduleExperiment(experimentId, priority) ==
  IF experimentId \notin CatalogIds
    THEN /\ schedRet' = [op |-> "scheduleExperiment", threw |-> "NotFound",
                         returns |-> "none", result |-> NoOutcome]
         /\ UNCHANGED <<experimentQueue, activeExperiments, completedExperiments,
                        running, scheduled, runOrder, returned, status>>
    ELSE /\ experimentQueue' =
              enqueue(experimentQueue,
                      [id |-> experimentId, ticket |-> Len(scheduled) + 1],
                      priority)
         /\ scheduled' = Append(scheduled, [priority |-> priority,
                                            ahead |-> Tickets(experimentQueue)])
         /\ schedRet' = [op |-> "scheduleExperiment", threw |-> "none",
                         returns |-> "none", result |-> NoOutcome]
         /\ UNCHANGED <<activeExperiments, completedExperiments, running, runOrder,
                        returned, status>>

\* a slip that reads the front entry and leaves it in the queue
RunNextStartPeek(hypothesisConfirmed) ==
  IF experimentQueue = << >>
    THEN /\ schedRet' = [op |-> "runNextExperiment", threw |-> "none",
                         returns |-> "null", result |-> NoOutcome]
         /\ UNCHANGED <<experimentQueue, activeExperiments, completedExperiments,
                        running, scheduled, runOrder, returned, status>>
    ELSE LET experiment == Head(experimentQueue)
         IN  /\ activeExperiments' =
                  MapSet(activeExperiments, experiment.id,
                         [experiment |-> experiment.id, status |-> "running"])
             /\ running' = Append(running,
                                  [experiment |-> experiment,
                                   result |-> [experimentId |-> experiment.id,
                                               hypothesisConfirmed |->
                                                 hypothesisConfirmed]])
             /\ runOrder' = Append(runOrder, experiment.ticket)
             /\ schedRet' = [op |-> "runNextExperiment", threw |-> "none",
                             returns |-> "pending", result |-> NoOutcome]
             /\ UNCHANGED <<experimentQueue, completedExperiments, scheduled,
                            returned, status>>

\* runNextExperiment up to its await: on an empty queue it returns null
RunNextStart(hypothesisConfirmed) ==
  IF experimentQueue = << >>
    THEN /\ schedRet' = [op |-> "runNextExperiment", threw |-> "none",
                         returns |-> "null", result |-> NoOutcome]
         /\ UNCHANGED <<experimentQueue, activeExperiments, completedExperiments,
                        running, scheduled, runOrder, returned, status>>
    ELSE LET experiment == Head(experimentQueue)
         IN  /\ experimentQueue' = Tail(experimentQueue)
             /\ activeExperiments' =
                  MapSet(activeExperiments, experiment.id,
                         [experiment |-> experiment.id, status |-> "running"])
             /\ running' = Append(running,
                                  [experiment |-> experiment,
                                   result |-> [experimentId |-> experiment.id,
                                               hypothesisConfirmed |->
                                                 hypothesisConfirmed]])
             /\ runOrder' = Append(runOrder, experiment.ticket)
             /\ schedRet' = [op |-> "runNextExperiment", threw |-> "none",
                             returns |-> "pending", result |-> NoOutcome]
             /\ UNCHANGED <<completedExperiments, scheduled, returned, status>>

\* Map.delete(k)
MapDelete(m, k) == [x \in DOMAIN m \ {k} |-> m[x]]

\* a slip that leaves the experiment in the active set
RunNextFinishStillActive ==
  /\ running # << >>
  /\ LET call == Head(running)
     IN  /\ running' = Tail(running)
         /\ completedExperiments' =
              MapSet(completedExperiments, call.experiment.id,
                     [experiment |-> call.experiment.id, result |-> call.result])
         /\ returned' = Append(returned, call.experiment.ticket)
         /\ schedRet' = [op |-> "runNextExperiment", threw |-> "none",
                         returns |-> "result", result |-> call.result]
  /\ UNCHANGED <<experimentQueue, activeExperiments, scheduled, runOrder, status>>

\* a slip that returns the result without recording it as completed
RunNextFinishNotRecorded ==
  /\ running # << >>
  /\ LET call == Head(running)
     IN  /\ running' = Tail(running)
         /\ activeExperiments' = MapDelete(activeExperiments, call.experiment.id)
         /\ returned' = Append(returned, call.experiment.ticket)
         /\ schedRet' = [op |-> "runNextExperiment", threw |-> "none",
                         returns |-> "result", result |-> call.result]
  /\ UNCHANGED <<experimentQueue, completedExperiments, scheduled, runOrder,
                 status>>

\* runNextExperiment after its await: the oldest suspended call resumes
RunNextFinish ==
  /\ running # << >>
  /\ LET call == Head(running)
     IN  /\ running' = Tail(running)
         /\ activeExperiments' = MapDelete(activeExperiments, call.experiment.id)
         /\ completedExperiments' =
              MapSet(completedExperiments, call.experiment.id,
                     [experiment |-> call.experiment.id, result |-> call.result])
         /\ returned' = Append(returned, call.experiment.ticket)
         /\ schedRet' = [op |-> "runNextExperiment", threw |-> "none",
                         returns |-> "result", result |-> call.result]
  /\ UNCHANGED <<experimentQueue, scheduled, runOrder, status>>

\* getExperimentStatus: active and completed are new arrays of the maps'
\* values, queued is the scheduler's own array this.experimentQueue; one call
\* is followed through the calls made after it
GetExperimentStatus ==
  /\ status.pc = "none"
  /\ status' = [pc |-> "returned", active |-> Values(activeExperiments),
                queued |-> "this.experimentQueue",
                completed |-> Values(completedExperiments)]
  /\ schedRet' = [op |-> "getExperimentStatus", threw |-> "none",
                  returns |-> "none", result |-> NoOutcome]
  /\ UNCHANGED <<experimentQueue, activeExperiments, completedExperiments,
                 running, scheduled, runOrder, returned>>

\* the elements of the array an array reference denotes
Elements(array) ==
  IF array = "this.experimentQueue" THEN experimentQueue ELSE << >>

(***************************************************************************)
(* Numbers that may be non-finite.  A finite number is the rational        *)
(* [n, d] with d > 0; NaN, +Infinity and -Infinity are the records with    *)
(* d = 0 that 0/0, 1/0 and -1/0 suggest.                                   *)
(***************************************************************************)
NaN == [n |-> 0, d |-> 0]

Infinity == [n |-> 1, d |-> 0]

NegInfinity == [n |-> -1, d |-> 0]

IsNaN(x) == x = NaN

IsFinite(x) == x.d # 0

Sign(x) == IF x.n > 0 THEN 1 ELSE IF x.n < 0 THEN -1 ELSE 0

Signed(s) == IF s > 0 THEN Infinity ELSE IF s < 0 THEN NegInfinity ELSE NaN

XNeg(a) == [n |-> -a.n, d |-> a.d]

\* a + b
XAdd(a, b) ==
  IF IsNaN(a) \/ IsNaN(b) THEN NaN
  ELSE IF IsFinite(a) /\ IsFinite(b) THEN FAdd(a, b)
  ELSE IF IsFinite(b) THEN a
  ELSE IF IsFinite(a) THEN b
  ELSE IF a = b THEN a ELSE NaN

\* a - b
XSub(a, b) == XAdd(a, XNeg(b))

\* a * b
XMul(a, b) ==
  IF IsNaN(a) \/ IsNaN(b) THEN NaN
  ELSE IF IsFinite(a) /\ IsFinite(b) THEN FMul(a, b)
  ELSE Signed(Sign(a) * Sign(b))

\* a / b, a zero being +0
XDiv(a, b) ==
  IF IsNaN(a) \/ IsNaN(b) THEN NaN
  ELSE IF IsFinite(a) /\ IsFinite(b)
    THEN IF b.n = 0 THEN Signed(Sign(a)) ELSE FDiv(a, b)
  ELSE IF IsFinite(a) THEN Zero
  ELSE IF IsFinite(b) THEN Signed(Sign(a) * (IF b.n < 0 THEN -1 ELSE 1))
  ELSE NaN

\* a > b: false when either side is NaN
XGt(a, b) ==
  IF IsNaN(a) \/ IsNaN(b) THEN FALSE
  ELSE IF IsFinite(a) /\ IsFinite(b) THEN FLt(b, a)
  ELSE IF IsFinite(a) THEN b = NegInfinity
  ELSE IF IsFinite(b) THEN a = Infinity
  ELSE a = Infinity /\ b = NegInfinity

\* a < b
XLt(a, b) == XGt(b, a)

\* xs.reduce((sum, x) => sum + x, 0) / xs.length: NaN on an empty list
XMean(xs) == XDiv(SumSeq(xs), Frac(Len(xs), 1))

(***************************************************************************)
(* ExperimentRunner.  Its drift tracker and overload detector are the      *)
(* variables of the two sections above; now is the clock Date.now() reads, *)
(* in milliseconds since the runner was constructed.                       *)
(***************************************************************************)
VARIABLES
  experiments,   \* Map configuration id -> the ExperimentResult of its last run
  now,           \* Date.now()
  run,           \* the runExperiment activation that runs, or ran last: its
                 \* position and its locals
  parked,        \* a second runExperiment activation, suspended at its await
                 \* or returned, while the activation in run goes on
  cmp,           \* the compareConfigurations activation, and what it returned
  api,           \* the request to an experiment route and its response
  apiExperiments, \* the server's own Map `experiments`: configuration id ->
                 \* {configuration, results} of the runs it started
  events         \* the calls runExperiment made and its returns, in order, each
                 \* with the configuration id: establishBaseline (arg: how
                 \* many samples it was given), recordMetric (arg: the index
                 \* of the sample processed), return (arg: result.samples)

runVars == <<experiments, now, run, parked, cmp, api, apiExperiments, events>>

\* testSamples.slice(0, 10) and let sampleIndex = 10
FirstSamples == 10

\* durationMs: number = 60000
DurationMs == 60000

\* the configurations compared
Configs ==
  {[id |-> "a1", database |-> TRUE, specialization |-> "expert",
    contextWindow |-> "minimal", memoryStrategy |-> "persistent"],
   [id |-> "a2", database |-> FALSE, specialization |-> "generalist",
    contextWindow |-> "extended", memoryStrategy |-> "ephemeral"]}

MaxConfigs == 2

MaxTestSamples == 2

\* every list of at most k elements of S
RECURSIVE SeqsUpTo(_, _)
SeqsUpTo(S, k) ==
  IF k = 0 THEN {<< >>}
  ELSE LET shorter == SeqsUpTo(S, k - 1)
       IN  shorter \cup UNION {{Append(q, x) : x \in S} : q \in shorter}

ConfigLists == SeqsUpTo(Configs, MaxConfigs)

\* Array.prototype.slice(0, count)
FirstN(s, count) == SubSeq(s, 1, IF Len(s) < count THEN Len(s) ELSE count)

BaselineSamples == <<S1, S2, S3, S4, S5, S1, S2, S3, S4, S5>>

FurtherSamples == [i \in 1..MaxTestSamples |-> IF i % 2 = 1 THEN S2 ELSE S3]

\* sample lists of 0, 3 and 10 samples, and of 10 samples followed by up to
\* MaxTestSamples more
TestSampleLists ==
  {FirstN(BaselineSamples \o FurtherSamples, k) :
     k \in {0, 3} \cup (Len(BaselineSamples)..(Len(BaselineSamples) + MaxTestSamples))}

\* the values the two Math.random() calls of one pass return
Randoms ==
  {[context |-> Zero, error |-> Zero],
   [context |-> Frac(1, 2), error |-> Frac(1, 2)]}

\* the milliseconds a timer fires after its delay has passed
Lateness == {0, DurationMs}

\* a Map with its insertion order: keys in order, vals by key
EmptyOrderedMap == [keys |-> << >>, vals |-> EmptyMap]

OrderedMapSet(m, k, v) ==
  [keys |-> IF k \in DOMAIN m.vals THEN m.keys ELSE Append(m.keys, k),
   vals |-> MapSet(m.vals, k, v)]

calculateContextUsage(contextWindow, random) ==
  CASE contextWindow = "minimal" -> FAdd(Frac(30, 100), FMul(random, Frac(20, 100)))
    [] contextWindow = "standard" -> FAdd(Frac(50, 100), FMul(random, Frac(25, 100)))
    [] contextWindow = "extended" -> FAdd(Frac(70, 100), FMul(random, Frac(25, 100)))

calculateCognitiveLoadForConfig(config, metric) ==
  LET l0 == FMul(metric.contextWindowUsage, Frac(25, 100))
      l1 == IF config.database THEN FSub(l0, Frac(10, 100)) ELSE l0
      l2 == IF config.specialization = "expert" THEN FSub(l1, Frac(15, 100))
            ELSE IF config.specialization = "generalist" THEN FAdd(l1, Frac(10, 100))
            ELSE l1
      l3 == IF config.memoryStrategy = "persistent" THEN FSub(l2, Frac(5, 100))
            ELSE IF config.memoryStrategy = "ephemeral" THEN FAdd(l2, Frac(5, 100))
            ELSE l2
      l4 == FAdd(l3, FMul(FSub(One, metric.semanticConsistency), Frac(30, 100)))
      l5 == FAdd(l4, FMul(metric.errorRate, Frac(2, 1)))
  IN  FMax(Zero, FMin(One, l5))

\* the delay simulateProcessingDelay sets its timer to
simulateProcessingDelay(config) ==
  100 + (IF config.database THEN 50 ELSE 0)
      + (IF config.contextWindow = "extended" THEN 30 ELSE 0)
      + (IF config.specialization = "generalist" THEN 20 ELSE 0)

FAbs(a) == [n |-> Abs(a.n), d |-> a.d]

RECURSIVE TotalChange(_, _)
TotalChange(ms, i) ==
  IF i > Len(ms) THEN Zero
  ELSE FAdd(FAbs(FSub(ms[i], ms[i - 1])), TotalChange(ms, i + 1))

calculateDriftVelocity(ms) ==
  IF Len(ms) < 2 THEN Zero
  ELSE FDiv(TotalChange(ms, 2), Frac(Len(ms) - 1, 1))

\* the recommendations, each named by the remedy it proposes
generateRecommendations(config, ms) ==
  LET avgConsistency == XMean(Field(ms, "semanticConsistency"))
      avgLoad == XMean(Field(ms, "cognitiveLoadIndex"))
      pick(cond, name) == IF cond THEN <<name>> ELSE << >>
  IN  pick(XLt(avgConsistency, Frac(85, 100)), "persistent memory")
        \o pick(XGt(avgLoad, Frac(70, 100)), "load is high")
        \o pick(~config.database /\ XLt(avgConsistency, Frac(90, 100)),
                "database backing")
        \o pick(config.specialization = "generalist"
                  /\ XGt(avgLoad, Frac(60, 100)), "specialization")
        \o pick(config.contextWindow = "extended"
                  /\ XGt(avgLoad, Frac(65, 100)), "reduce context window")

calculateScore(result) ==
  XAdd(XAdd(XMul(result.metrics.semanticConsistency, Frac(40, 1)),
            XMul(XSub(One, result.metrics.cognitiveLoad), Frac(30, 1))),
       XAdd(XMul(XSub(One, XMul(result.metrics.errorRate, Frac(10, 1))),
                 Frac(20, 1)),
            XMul(XDiv(Frac(1000, 1), result.metrics.processingLatency),
                 Frac(10, 1))))

\* for (const [id, result] of results), from the i-th entry on
RECURSIVE WinnerLoop(_, _, _, _)
WinnerLoop(results, i, bestScore, winner) ==
  IF i > Len(results.keys) THEN winner
  ELSE LET id == results.keys[i]
           score == calculateScore(results.vals[id])
       IN  IF XGt(score, bestScore)
             THEN WinnerLoop(results, i + 1, score, id)
             ELSE WinnerLoop(results, i + 1, bestScore, winner)

determineWinner(results) == WinnerLoop(results, 1, NegInfinity, "")

NoRun ==
  [pc |-> "idle", configuration |-> CHOOSE c \in Configs : c.id = "a1",
   testSamples |-> << >>, startTime |-> 0, metrics |-> << >>,
   driftMeasurements |-> << >>, sampleIndex |-> 0, caller |-> "none"]

NoCmp ==
  [pc |-> "idle", configs |-> << >>, testSamples |-> << >>, i |-> 0,
   results |-> EmptyOrderedMap, winner |-> "", threw |-> "none"]

NoRequest ==
  [route |-> "none", pc |-> "idle", missing |-> FALSE, status |-> 0,
   error |-> "none"]

RunInit ==
  /\ experiments = EmptyMap
  /\ now = 0
  /\ run = NoRun
  /\ parked = NoRun
  /\ cmp = NoCmp
  /\ api = NoRequest
  /\ apiExperiments = EmptyMap
  /\ events = << >>

\* compareConfigurations is called: new Map(), and the for loop is entered
CompareConfigurations(configs, testSamples) ==
  /\ cmp.pc = "idle"
  /\ run.pc = "idle"
  /\ cmp' = [pc |-> "loop", configs |-> configs, testSamples |-> testSamples,
             i |-> 1, results |-> EmptyOrderedMap, winner |-> "",
             threw |-> "none"]
  /\ UNCHANGED <<experiments, now, run, parked, events>>

\* runExperiment is called and runs to its while loop: startTime, the two
\* empty lists, establishBaseline on the first ten samples, sampleIndex = 10
BeginRun(configuration, testSamples, caller) ==
  /\ EstablishBaseline(configuration.id, FirstN(testSamples, FirstSamples))
  /\ run' = [pc |-> "test", configuration |-> configuration,
             testSamples |-> testSamples, startTime |-> now,
             metrics |-> << >>, driftMeasurements |-> << >>,
             sampleIndex |-> FirstSamples, caller |-> caller]
  /\ events' = Append(events, [kind |-> "establishBaseline",
                               id |-> configuration.id,
                               arg |-> Len(FirstN(testSamples, FirstSamples))])

\* a slip that calls runExperiment again while the run before is awaited
RunExperimentNoAwait ==
  /\ cmp.pc \in {"loop", "awaiting"}
  /\ cmp.i <= Len(cmp.configs)
  /\ BeginRun(cmp.configs[cmp.i], cmp.testSamples, "compareConfigurations")
  /\ cmp' = [cmp EXCEPT !.pc = "awaiting"]
  /\ UNCHANGED <<experiments, now, parked, api, apiExperiments>>

\* the loop of compareConfigurations calls runExperiment for the next
\* configuration
RunExperiment ==
  /\ cmp.pc = "loop"
  /\ cmp.i <= Len(cmp.configs)
  /\ BeginRun(cmp.configs[cmp.i], cmp.testSamples, "compareConfigurations")
  /\ cmp' = [cmp EXCEPT !.pc = "awaiting"]
  /\ UNCHANGED <<experiments, now, parked, api, apiExperiments>>

\* a slip that leaves the clock out of the loop test
LoopTestWithoutClock == run.sampleIndex < Len(run.testSamples)

\* Date.now() - startTime < durationMs && sampleIndex < testSamples.length
LoopTest ==
  now - run.startTime < DurationMs /\ run.sampleIndex < Len(run.testSamples)

\* the CognitiveMetrics record a pass of the while loop builds
passMetric(configuration, drift, timestamp, elapsed, random) ==
  LET metric0 == [agentId |-> configuration.id,
                  timestamp |-> timestamp,
                  contextWindowUsage |->
                    calculateContextUsage(configuration.contextWindow,
                                          random.context),
                  processingLatency |-> Frac(elapsed, 1),
                  errorRate |-> FMul(random.error, Frac(5, 100)),
                  semanticConsistency |-> FSub(One, drift),
                  cognitiveLoadIndex |-> Zero]
  IN  [metric0 EXCEPT !.cognitiveLoadIndex =
         calculateCognitiveLoadForConfig(configuration, metric0)]

\* a slip that gives every run a baseline of its own: the pass measures drift
\* against the first samples of the run's own list
ProcessSampleOwnBaseline(elapsed, random) ==
  /\ run.pc = "test"
  /\ LoopTest
  /\ LET configuration == run.configuration
         sample == run.testSamples[run.sampleIndex + 1]
         drift == calculateDrift(
                    extractTerminology(FirstN(run.testSamples, FirstSamples)),
                    extractTerminology(<<sample>>))
         metric == passMetric(configuration, drift, now + elapsed, elapsed,
                              random)
     IN  /\ MeasureDrift(configuration.id, sample)
         /\ RecordMetric(metric)
         /\ run' = [run EXCEPT !.pc = "await",
                               !.metrics = Append(@, metric),
                               !.driftMeasurements = Append(@, drift),
                               !.sampleIndex = @ + 1]
  /\ now' = now + elapsed
  /\ events' = Append(events, [kind |-> "recordMetric",
                               id |-> run.configuration.id,
                               arg |-> run.sampleIndex])
  /\ UNCHANGED <<experiments, parked, cmp, api, apiExperiments>>

\* one pass of the while loop, to the await; the work takes elapsed ms, and
\* the two Math.random() calls return random.context and random.error
ProcessSample(elapsed, random) ==
  /\ run.pc = "test"
  /\ LoopTest
  /\ LET configuration == run.configuration
         sample == run.testSamples[run.sampleIndex + 1]
         drift == measureDriftValue(baseline, configuration.id, sample)
         metric == passMetric(configuration, drift, now + elapsed, elapsed,
                              random)
     IN  /\ MeasureDrift(configuration.id, sample)
         /\ RecordMetric(metric)
         /\ run' = [run EXCEPT !.pc = "await",
                               !.metrics = Append(@, metric),
                               !.driftMeasurements = Append(@, drift),
                               !.sampleIndex = @ + 1]
  /\ now' = now + elapsed
  /\ events' = Append(events, [kind |-> "recordMetric",
                               id |-> run.configuration.id,
                               arg |-> run.sampleIndex])
  /\ UNCHANGED <<experiments, parked, cmp, api, apiExperiments>>

\* the timer of simulateProcessingDelay fires, late ms after its delay
TimerFires(late) ==
  /\ run.pc = "await"
  /\ now' = now + simulateProcessingDelay(run.configuration) + late
  /\ run' = [run EXCEPT !.pc = "test"]
  /\ UNCHANGED <<experiments, parked, cmp, api, apiExperiments, events,
                 driftVars, detVars>>

\* the ExperimentResult runExperiment builds after its loop
experimentResult(r, load, time) ==
  [configurationId |-> r.configuration.id,
   metrics |->
     [semanticConsistency |-> XMean(Field(r.metrics, "semanticConsistency")),
      cognitiveLoad |-> load,
      processingLatency |-> XMean(Field(r.metrics, "processingLatency")),
      errorRate |-> XMean(Field(r.metrics, "errorRate")),
      driftVelocity |-> calculateDriftVelocity(r.driftMeasurements)],
   samples |-> r.sampleIndex - FirstSamples,
   duration |-> time - r.startTime,
   recommendations |-> generateRecommendations(r.configuration, r.metrics)]

\* a slip that computes the load from the records of this run alone
ReturnResultOwnRecords ==
  /\ run.pc = "test"
  /\ run.caller = "compareConfigurations"
  /\ ~LoopTest
  /\ LET id == run.configuration.id
         result == experimentResult(run,
                     calculateCognitiveLoad((id :> run.metrics), baselines, id),
                     now)
     IN  /\ CalculateCognitiveLoad(id)
         /\ experiments' = MapSet(experiments, id, result)
         /\ cmp' = [cmp EXCEPT !.pc = "loop", !.i = @ + 1,
                               !.results = OrderedMapSet(@, id, result)]
  /\ run' = [run EXCEPT !.pc = "idle"]
  /\ events' = Append(events, [kind |-> "return", id |-> run.configuration.id,
                               arg |-> run.sampleIndex - FirstSamples])
  /\ UNCHANGED <<now, parked, api, apiExperiments, driftVars>>

\* the loop is left: the result is built, stored and returned, and
\* compareConfigurations takes it into results
ReturnResult ==
  /\ run.pc = "test"
  /\ run.caller = "compareConfigurations"
  /\ ~LoopTest
  /\ LET id == run.configuration.id
         result == experimentResult(run,
                     calculateCognitiveLoad(metrics, baselines, id), now)
     IN  /\ CalculateCognitiveLoad(id)
         /\ experiments' = MapSet(experiments, id, result)
         /\ cmp' = [cmp EXCEPT !.pc = "loop", !.i = @ + 1,
                               !.results = OrderedMapSet(@, id, result)]
  /\ run' = [run EXCEPT !.pc = "idle"]
  /\ events' = Append(events, [kind |-> "return", id |-> run.configuration.id,
                               arg |-> run.sampleIndex - FirstSamples])
  /\ UNCHANGED <<now, parked, api, apiExperiments, driftVars>>

\* after the loop: determineWinner, then generateComparativeAnalysis, which
\* reads sorted[0][1] and so throws a TypeError when results is empty; the
\* route answers with the comparison, or never answers when the call threw
DetermineWinner ==
  /\ cmp.pc = "loop"
  /\ cmp.i > Len(cmp.configs)
  /\ cmp' = [cmp EXCEPT !.pc = "done",
                        !.winner = determineWinner(cmp.results),
                        !.threw = IF cmp.results.keys = << >> THEN "TypeError"
                                                              ELSE "none"]
  /\ api' = IF cmp.results.keys = << >>
              THEN [api EXCEPT !.pc = "failed", !.error = "TypeError"]
              ELSE [api EXCEPT !.pc = "responded", !.status = 200]
  /\ UNCHANGED <<experiments, now, run, parked, apiExperiments, events,
                 driftVars, detVars>>

(***************************************************************************)
(* The experiment routes of the server (devy/enhanced-memory-system), the  *)
(* callers of the runner.  A field of req.body is << >> when the request   *)
(* lacks it and <<v>> when it holds v.                                     *)
(***************************************************************************)
BadRequest(route, error) ==
  [route |-> route, pc |-> "responded", missing |-> TRUE, status |-> 400,
   error |-> error]

Awaiting(route) ==
  [route |-> route, pc |-> "awaiting", missing |-> FALSE, status |-> 0,
   error |-> "none"]

\* a slip that tests the configuration alone and runs without samples
PostExperimentStartNoSamplesCheck(configuration, samples) ==
  /\ api.pc = "idle"
  /\ run.pc = "idle"
  /\ IF configuration = << >>
       THEN /\ api' = BadRequest("start", "Configuration and samples required")
            /\ UNCHANGED <<run, events, driftVars>>
       ELSE /\ BeginRun(configuration[1],
                        IF samples = << >> THEN << >> ELSE samples[1], "start")
            /\ api' = Awaiting("start")
  /\ UNCHANGED <<experiments, now, parked, cmp, apiExperiments>>

\* POST /api/experiment/start, to the await of runExperiment
PostExperimentStart(configuration, samples) ==
  /\ api.pc = "idle"
  /\ run.pc = "idle"
  /\ IF configuration = << >> \/ samples = << >>
       THEN /\ api' = BadRequest("start", "Configuration and samples required")
            /\ UNCHANGED <<run, events, driftVars>>
       ELSE /\ BeginRun(configuration[1], samples[1], "start")
            /\ api' = Awaiting("start")
  /\ UNCHANGED <<experiments, now, parked, cmp, apiExperiments>>

\* runExperiment leaves its loop and returns to the start route, which stores
\* the result under the configuration's id and answers with it
RespondStart ==
  /\ run.pc = "test"
  /\ run.caller = "start"
  /\ ~LoopTest
  /\ LET id == run.configuration.id
         result == experimentResult(run,
                     calculateCognitiveLoad(metrics, baselines, id), now)
     IN  /\ CalculateCognitiveLoad(id)
         /\ experiments' = MapSet(experiments, id, result)
         /\ apiExperiments' = MapSet(apiExperiments, id,
                                     [configuration |-> run.configuration,
                                      results |-> result])
  /\ api' = [api EXCEPT !.pc = "responded", !.status = 200]
  /\ run' = [run EXCEPT !.pc = "idle"]
  /\ events' = Append(events, [kind |-> "return", id |-> run.configuration.id,
                               arg |-> run.sampleIndex - FirstSamples])
  /\ UNCHANGED <<now, parked, cmp, driftVars>>

\* a second POST /api/experiment/start with both fields arrives while the
\* run the first request started awaits its timer: the handler calls
\* runExperiment, which runs to its while loop; the first run stays suspended
PostExperimentStartOverlapping(configuration, samples) ==
  /\ api.route = "start"
  /\ api.pc = "awaiting"
  /\ run.pc = "await"
  /\ parked = NoRun
  /\ parked' = run
  /\ BeginRun(configuration, samples, "start")
  /\ UNCHANGED <<experiments, now, cmp, api, apiExperiments>>

\* the activation in run is suspended at its await or has returned, and the
\* event loop turns to the other activation, whose timer is the next to fire
Resume ==
  /\ run.pc \in {"await", "idle"}
  /\ parked.pc = "await"
  /\ run' = parked
  /\ parked' = run
  /\ UNCHANGED <<experiments, now, cmp, api, apiExperiments, events>>

\* POST /api/experiment/compare, to the first await of compareConfigurations
PostExperimentCompare(configurations, samples) ==
  /\ api.pc = "idle"
  /\ IF configurations = << >> \/ samples = << >>
       THEN /\ api' = BadRequest("compare", "Configurations and samples required")
            /\ UNCHANGED <<experiments, now, run, cmp, events>>
       ELSE /\ CompareConfigurations(configurations[1], samples[1])
            /\ api' = Awaiting("compare")
  /\ UNCHANGED <<apiExperiments, parked>>

\* what a field of a request body may hold
Optional(S) == {<< >>} \cup {<<v>> : v \in S}

(***************************************************************************)
(* Specifications                                                          *)
(***************************************************************************)
vars == <<driftVars, detVars, schedVars, runVars>>

\* the state after construction of every object
Init == DriftInit /\ DetInitCold /\ SchedInit /\ RunInit

DriftNext ==
  \/ \E a \in Agents : \E S \in SampleLists(a) :
       EstablishBaseline(a, S) /\ UNCHANGED <<detVars, schedVars, runVars>>
  \/ \E a \in Agents, s \in Samples :
       /\ (a \in DOMAIN baseline => measurements < MaxLog)
       /\ MeasureDrift(a, s)
       /\ UNCHANGED <<detVars, schedVars, runVars>>

\* the drift tracker alone
SpecDrift == Init /\ [][DriftNext]_vars

\* a detector that recorded CapWarmLen equal healthy records for agent a1
CapInit ==
  LET warm == Warmed("a1", [ctx |-> Frac(50, 100), lat |-> 1000, err |-> Zero,
                            cons |-> One], CapWarmLen)
  IN  /\ DriftInit
      /\ SchedInit
      /\ RunInit
      /\ metrics = warm.metrics
      /\ baselines = warm.baselines
      /\ recorded = warm.metrics
      /\ fed = 0
      /\ detRet = [op |-> "recordMetric", agentId |-> "a1", load |-> Zero,
                   overload |-> NoResult]

DetNext ==
  \/ \E a \in Agents, r \in Readings :
       /\ fed < MaxRecords
       /\ RecordMetric(Metric(a, Count(a) + 1, r))
       /\ UNCHANGED <<driftVars, schedVars, runVars>>
  \/ \E a \in Agents : CalculateCognitiveLoad(a) /\ UNCHANGED <<driftVars, schedVars, runVars>>
  \/ \E a \in Agents : DetectOverload(a) /\ UNCHANGED <<driftVars, schedVars, runVars>>

\* the overload detector alone, fresh or warmed up
InitWarm == DriftInit /\ DetInit /\ SchedInit /\ RunInit

SpecDetector == InitWarm /\ [][DetNext]_vars


\* the lengths of the three runs of records the long history starts with
OldHealthyLen == 11

NewHealthyLen == 11

UnhealthyLen == 37

\* a detector that recorded, for agent a1, OldHealthyLen healthy records, then
\* NewHealthyLen healthy records of other values, then UnhealthyLen unhealthy
\* records: a history longer than the 50 records updateBaseline slices
LongInit ==
  LET old == Warmed("a1", [ctx |-> Frac(50, 100), lat |-> 1000, err |-> Zero,
                           cons |-> One], OldHealthyLen)
      new == FeedRange(old, "a1",
                       [ctx |-> Frac(40, 100), lat |-> 0, err |-> Frac(2, 100),
                        cons |-> Frac(90, 100)],
                       OldHealthyLen + 1, OldHealthyLen + NewHealthyLen)
      long == IF DOMAIN new.metrics = {} THEN new
              ELSE FeedRange(new, "a1",
                             [ctx |-> One, lat |-> 5000, err |-> One, cons |-> Zero],
                             OldHealthyLen + NewHealthyLen + 1,
                             OldHealthyLen + NewHealthyLen + UnhealthyLen)
  IN  /\ DriftInit
      /\ SchedInit
      /\ RunInit
      /\ metrics = long.metrics
      /\ baselines = long.baselines
      /\ recorded = long.metrics
      /\ fed = 0
      /\ detRet = [op |-> "recordMetric", agentId |-> "a1", load |-> Zero,
                   overload |-> NoResult]

\* the overload detector with a history longer than 50 records
SpecLongHistory == LongInit /\ [][DetNext]_vars

\* the lengths of the two runs of records the full history starts with
EvictHealthyLen == 11

EvictUnhealthyLen == 988

\* a detector that recorded, for agent a1, EvictHealthyLen healthy records of
\* latency 0 and then EvictUnhealthyLen unhealthy ones: its history is about
\* to reach the 1000 records it keeps and to lose its oldest, healthy records
EvictInit ==
  LET old == Warmed("a1", [ctx |-> Frac(40, 100), lat |-> 0, err |-> Frac(2, 100),
                           cons |-> Frac(90, 100)], EvictHealthyLen)
      full == IF DOMAIN old.metrics = {} THEN old
              ELSE FeedRange(old, "a1",
                             [ctx |-> One, lat |-> 5000, err |-> One, cons |-> Zero],
                             EvictHealthyLen + 1,
                             EvictHealthyLen + EvictUnhealthyLen)
  IN  /\ DriftInit
      /\ SchedInit
      /\ RunInit
      /\ metrics = full.metrics
      /\ baselines = full.baselines
      /\ recorded = full.metrics
      /\ fed = 0
      /\ detRet = [op |-> "recordMetric", agentId |-> "a1", load |-> Zero,
                   overload |-> NoResult]

\* the overload detector whose history loses its healthy records
SpecEviction == EvictInit /\ [][DetNext]_vars
\* the capacity run: up to MaxCapRecords further records, at most one of them
\* for the other agent
CapNext ==
  \E a \in Agents, r \in {x \in Readings : x.lat = 1000} :
    /\ fed < MaxCapRecords
    /\ a # "a1" => Count(a) < 1
    /\ RecordMetric(Metric(a, Count(a) + 1, r))
    /\ UNCHANGED <<driftVars, schedVars, runVars>>

\* the overload detector fed past its capacity
SpecCap == CapInit /\ [][CapNext]_vars

SchedNext ==
  \/ \E id \in ScheduleIds, priority \in Priorities :
       /\ Len(scheduled) < MaxScheduled
       /\ ScheduleExperiment(id, priority)
       /\ UNCHANGED <<driftVars, detVars, runVars>>
  \/ \E hypothesisConfirmed \in BOOLEAN :
       RunNextStart(hypothesisConfirmed) /\ UNCHANGED <<driftVars, detVars, runVars>>
  \/ RunNextFinish /\ UNCHANGED <<driftVars, detVars, runVars>>

\* the experiment scheduler alone
SpecScheduler == Init /\ [][SchedNext]_vars

\* runNextExperiment keeps being called, and a call suspended at its await is
\* resumed: the promise of executeExperiment is already resolved
SchedFairness ==
  /\ WF_vars(\E hypothesisConfirmed \in BOOLEAN :
               RunNextStart(hypothesisConfirmed)
                 /\ UNCHANGED <<driftVars, detVars, runVars>>)
  /\ WF_vars(RunNextFinish /\ UNCHANGED <<driftVars, detVars, runVars>>)

\* the experiment scheduler with a caller that keeps running the next
\* experiment, and at most MaxScheduled scheduleExperiment calls that succeed
SpecSchedulerLive == Init /\ [][SchedNext]_vars /\ SchedFairness

StatusNext ==
  \/ \E id \in ScheduleIds, priority \in Priorities :
       /\ Len(scheduled) < MaxScheduled
       /\ ScheduleExperiment(id, priority)
       /\ UNCHANGED <<driftVars, detVars, runVars>>
  \/ \E hypothesisConfirmed \in BOOLEAN :
       RunNextStart(hypothesisConfirmed) /\ UNCHANGED <<driftVars, detVars, runVars>>
  \/ RunNextFinish /\ UNCHANGED <<driftVars, detVars, runVars>>
  \/ GetExperimentStatus /\ UNCHANGED <<driftVars, detVars, runVars>>

\* the experiment scheduler and a caller that asks for its status
SpecStatus == Init /\ [][StatusNext]_vars

CompareNext ==
  \/ \E configurations \in Optional(ConfigLists), samples \in Optional(TestSampleLists) :
       /\ PostExperimentCompare(configurations, samples)
       /\ UNCHANGED <<driftVars, detVars, schedVars>>
  \/ \E configuration \in Optional(Configs), samples \in Optional(TestSampleLists) :
       PostExperimentStart(configuration, samples) /\ UNCHANGED <<detVars, schedVars>>
  \/ RunExperiment /\ UNCHANGED <<detVars, schedVars>>
  \/ RespondStart /\ UNCHANGED schedVars
  \/ \E elapsed \in {0, 1}, random \in Randoms :
       ProcessSample(elapsed, random) /\ UNCHANGED schedVars
  \/ \E late \in Lateness : TimerFires(late) /\ UNCHANGED schedVars
  \/ ReturnResult /\ UNCHANGED schedVars
  \/ DetermineWinner /\ UNCHANGED schedVars

\* one request to an experiment route of a freshly started server
SpecCompare == Init /\ [][CompareNext]_vars

\* the event loop resumes a runExperiment call that can go on: its loop makes
\* the next pass when its test holds and is left when it fails, and the timer
\* it awaits fires.  The first three conditions are weak fairness written
\* out, []<>(~ENABLED <<A>>_vars) \/ []<><<A>>_vars: the action is enabled
\* exactly when the run stands at the loop test with the outcome named.
RunFairness ==
  /\ \/ []<>(~(run.pc = "test" /\ LoopTest))
     \/ []<><<\E elapsed \in {0, 1}, random \in Randoms :
                ProcessSample(elapsed, random) /\ UNCHANGED schedVars>>_vars
  /\ \/ []<>(~(run.pc = "test" /\ run.caller = "compareConfigurations"
                  /\ ~LoopTest))
     \/ []<><<ReturnResult /\ UNCHANGED schedVars>>_vars
  /\ \/ []<>(~(run.pc = "test" /\ run.caller = "start" /\ ~LoopTest))
     \/ []<><<RespondStart /\ UNCHANGED schedVars>>_vars
  /\ WF_vars(\E late \in Lateness : TimerFires(late) /\ UNCHANGED schedVars)

\* one request to an experiment route, with every run resumed
SpecCompareLive == Init /\ [][CompareNext]_vars /\ RunFairness


\* the passes of the run the runner made before the first state of SpecOverlap
PriorPasses == 19

\* that run's samples: none of them holds a technical term
PriorSamples == [i \in 1..(FirstSamples + PriorPasses) |-> S5]

PriorConfig == CHOOSE c \in Configs : c.id = "a1"

PriorBaseline ==
  MapSet(EmptyMap, PriorConfig.id,
         baselineEntry(EmptyMap, PriorConfig.id, FirstN(PriorSamples, FirstSamples)))

PriorDrift(k) ==
  measureDriftValue(PriorBaseline, PriorConfig.id, PriorSamples[FirstSamples + k])

\* the record of its k-th pass: no time passes in a pass, both Math.random()
\* calls return 0 and every timer fires on time
PriorMetric(k) ==
  passMetric(PriorConfig, PriorDrift(k),
             (k - 1) * simulateProcessingDelay(PriorConfig), 0,
             [context |-> Zero, error |-> Zero])

\* the detector st after recordMetric of recs[lo..hi], one after the other
RECURSIVE FeedMetrics(_, _, _, _)
FeedMetrics(st, recs, lo, hi) ==
  IF lo > hi THEN st
  ELSE IF lo = hi THEN recordMetric(st.metrics, st.baselines, recs[lo])
  ELSE LET mid == (lo + hi) \div 2
           half == FeedMetrics(st, recs, lo, mid)
       IN  IF DOMAIN half.metrics = {} THEN half
           ELSE FeedMetrics(half, recs, mid + 1, hi)

PriorDetector ==
  FeedMetrics([metrics |-> EmptyMap, baselines |-> EmptyMap],
              [k \in 1..PriorPasses |-> PriorMetric(k)], 1, PriorPasses)

PriorRun ==
  [pc |-> "idle", configuration |-> PriorConfig, testSamples |-> PriorSamples,
   startTime |-> 0, metrics |-> [k \in 1..PriorPasses |-> PriorMetric(k)],
   driftMeasurements |-> [k \in 1..PriorPasses |-> PriorDrift(k)],
   sampleIndex |-> FirstSamples + PriorPasses, caller |-> "start"]

PriorEnd == PriorPasses * simulateProcessingDelay(PriorConfig)

PriorResult ==
  experimentResult(PriorRun,
                   calculateCognitiveLoad(PriorDetector.metrics,
                                          PriorDetector.baselines, PriorConfig.id),
                   PriorEnd)

\* a server that has answered one POST /api/experiment/start, for the
\* configuration a1 and PriorSamples: the runner's state after that run
OverlapInit ==
  /\ baseline = PriorBaseline
  /\ measurements = PriorPasses
  /\ driftRet = [op |-> "measureDrift", agentId |-> PriorConfig.id,
                 sample |-> PriorSamples[Len(PriorSamples)],
                 value |-> PriorDrift(PriorPasses), threw |-> "none",
                 stored |-> FALSE]
  /\ established = MapSet(EmptyMap, PriorConfig.id,
                          FirstN(PriorSamples, FirstSamples))
  /\ overwrote = [a \in Agents |-> FALSE]
  /\ metrics = PriorDetector.metrics
  /\ baselines = PriorDetector.baselines
  /\ recorded = PriorDetector.metrics
  /\ fed = 0
  /\ detRet = [op |-> "calculateCognitiveLoad", agentId |-> PriorConfig.id,
               load |-> PriorResult.metrics.cognitiveLoad, overload |-> NoResult]
  /\ SchedInit
  /\ experiments = MapSet(EmptyMap, PriorConfig.id, PriorResult)
  /\ now = PriorEnd
  /\ run = PriorRun
  /\ parked = NoRun
  /\ cmp = NoCmp
  /\ api = NoRequest
  /\ apiExperiments = MapSet(EmptyMap, PriorConfig.id,
                             [configuration |-> PriorConfig,
                              results |-> PriorResult])
  /\ events = << >>

\* a list of 11 samples whose first ten are not those of the other lists
OtherSamples == [i \in 1..(FirstSamples + 1) |-> IF i <= FirstSamples THEN S1 ELSE S4]

\* the sample lists of the two requests
OverlapSampleLists ==
  {FirstN(BaselineSamples \o FurtherSamples, k) :
     k \in {3, Len(BaselineSamples) + 1, Len(BaselineSamples) + MaxTestSamples}}
    \cup {OtherSamples}

OverlapNext ==
  \/ \E configuration \in Configs, samples \in OverlapSampleLists :
       PostExperimentStart(<<configuration>>, <<samples>>)
         /\ UNCHANGED <<detVars, schedVars>>
  \/ \E configuration \in Configs, samples \in OverlapSampleLists :
       PostExperimentStartOverlapping(configuration, samples)
         /\ UNCHANGED <<detVars, schedVars>>
  \/ Resume /\ UNCHANGED <<driftVars, detVars, schedVars>>
  \/ \E random \in Randoms : ProcessSample(0, random) /\ UNCHANGED schedVars
  \/ \E late \in Lateness : TimerFires(late) /\ UNCHANGED schedVars
  \/ RespondStart /\ UNCHANGED schedVars

\* two requests to POST /api/experiment/start whose runs overlap
SpecOverlap == OverlapInit /\ [][OverlapNext]_vars
(***************************************************************************)
(* Claims about SemanticDriftMeasurement (checked under SpecDrift)         *)
(***************************************************************************)
\* the term-frequency profile of the sample of the last measureDrift call
LastProfile == extractTerminology(<<driftRet.sample>>)

LastMeasured == driftRet.op = "measureDrift" /\ driftRet.agentId \in DOMAIN baseline

MinOf(x, y) == IF x < y THEN x ELSE y

MaxOf(x, y) == IF x < y THEN y ELSE x

\* sum over the union of terms of min(baselineFreq, sampleFreq), by counting
SumMin(b, c) ==
  Cardinality(UNION {{<<t, i>> : i \in 1..MinOf(Get(b, t), Get(c, t))} :
                     t \in DOMAIN b \cup DOMAIN c})

\* sum over the union of terms of max(baselineFreq, sampleFreq), by counting
SumMax(b, c) ==
  Cardinality(UNION {{<<t, i>> : i \in 1..MaxOf(Get(b, t), Get(c, t))} :
                     t \in DOMAIN b \cup DOMAIN c})

\* the baseline profile {api:1, database:2, schema:2} of the spec's scenario
ScenarioBaseline ==
  [t \in {"api", "database", "schema"} |-> IF t = "api" THEN 1 ELSE 2]

\* the sample profile {api:1, schema:1} of the spec's scenario
ScenarioSample == [t \in {"api", "schema"} |-> 1]

\* C1: measureDrift for an agent establishBaseline was never called for returns
\* exactly 0, for every sample and whatever was done for other agents.
C1_NoBaselineDriftZero ==
  (driftRet.op = "measureDrift" /\ driftRet.agentId \notin DOMAIN established)
    => driftRet.value = Zero

\* a measureDrift on a never-established agent, with a sample that holds
\* technical terms, after a baseline was established for another agent
C1_Witness ==
  /\ driftRet.op = "measureDrift"
  /\ driftRet.agentId \notin DOMAIN established
  /\ established # EmptyMap
  /\ LastProfile # EmptyMap

\* C7: with a baseline, measureDrift returns 1 - (sum of min)/(sum of max) over
\* the union of terms, a value in [0,1]; 0 when the union is empty; and 0.6
\* for baseline {api:1, database:2, schema:2} against sample {api:1, schema:1}.
C7_DriftFormula ==
  LastMeasured =>
    LET b == baseline[driftRet.agentId].terminology
        c == LastProfile
    IN  /\ SumMax(b, c) = 0 => driftRet.value = Zero
        /\ SumMax(b, c) > 0 =>
             driftRet.value = FSub(One, Frac(SumMin(b, c), SumMax(b, c)))
        /\ FLe(Zero, driftRet.value) /\ FLe(driftRet.value, One)
        /\ (b = ScenarioBaseline /\ c = ScenarioSample)
             => driftRet.value = Frac(6, 10)

\* the spec's scenario: baseline from S1 and S2, sample S3, drift 3/5
C7_Witness ==
  /\ LastMeasured
  /\ driftRet.sample = S3
  /\ baseline[driftRet.agentId].terminology = extractTerminology(<<S1, S2>>)
  /\ baseline[driftRet.agentId].terminology = ScenarioBaseline
  /\ LastProfile = ScenarioSample
  /\ driftRet.value = Frac(3, 5)

\* C8: with a baseline, measureDrift returns 0 exactly when the sample's profile
\* equals the baseline's, and one more occurrence in the sample of a term whose
\* sample frequency is below its baseline frequency strictly decreases the drift.
C8_DriftZeroIffEqualAndMonotone ==
  LastMeasured =>
    LET b == baseline[driftRet.agentId].terminology
        c == LastProfile
    IN  /\ (driftRet.value = Zero) <=> (b = c)
        /\ \A t \in DOMAIN b :
             Get(c, t) < b[t] =>
               FLt(measureDriftValue(baseline, driftRet.agentId,
                                     Append(driftRet.sample, t)),
                   driftRet.value)

\* a measured sample that holds a baseline term less often than the baseline
C8_Witness ==
  /\ LastMeasured
  /\ \E t \in DOMAIN baseline[driftRet.agentId].terminology :
       /\ 0 < Get(LastProfile, t)
       /\ Get(LastProfile, t) < baseline[driftRet.agentId].terminology[t]

\* C9: establishBaseline replaces the baseline wholesale: the profile stored
\* for an agent is always that of the samples of its latest establishBaseline
\* call alone, and every measureDrift(a, s) returns what it returns against
\* those samples alone, whatever baselines the agent had before.
C9_BaselineReplaced ==
  /\ \A a \in DOMAIN established :
       /\ a \in DOMAIN baseline
       /\ baseline[a].terminology = extractTerminology(established[a])
  /\ LastMeasured =>
       driftRet.value = calculateDrift(extractTerminology(established[driftRet.agentId]),
                                       LastProfile)

\* a measureDrift against a baseline that replaced an earlier one with terms
C9_Witness ==
  /\ LastMeasured
  /\ overwrote[driftRet.agentId]
  /\ driftRet.value # Zero

\* C10: establishBaseline with an empty samples list fails with InvalidArgument
\* and stores no baseline.
C10_EmptySamplesRejected ==
  (driftRet.op = "establishBaseline" /\ established[driftRet.agentId] = << >>)
    => (driftRet.threw = "InvalidArgument" /\ ~driftRet.stored)

(***************************************************************************)
(* Claims about CognitiveOverloadDetector                                  *)
(***************************************************************************)
\* C2: each agent's history holds exactly the min(n, 1000) most recently
\* recorded of its n records, in recording order; its length never exceeds 1000.
C2_HistoryIsLastThousand ==
  /\ DOMAIN metrics = DOMAIN recorded
  /\ \A a \in DOMAIN recorded :
       LET n == Len(recorded[a])
           kept == IF n < 1000 THEN n ELSE 1000
       IN  /\ Len(metrics[a]) = kept
           /\ \A i \in 1..kept : metrics[a][i] = recorded[a][n - kept + i]

\* 1001 records for one agent: only the single oldest one is missing
C2_Witness ==
  /\ "a1" \in DOMAIN recorded
  /\ Len(recorded["a1"]) = 1001
  /\ Len(metrics["a1"]) = 1000
  /\ metrics["a1"][1] = recorded["a1"][2]
  /\ metrics["a1"][1] # recorded["a1"][1]
  /\ metrics["a1"][1000] = recorded["a1"][1001]

\* C3: calculateCognitiveLoad returns a value in [0,1] for valid records under
\* any derived baseline, and 0 for an agent without history.
C3_LoadInUnitInterval ==
  detRet.op = "calculateCognitiveLoad" =>
    /\ FLe(Zero, detRet.load)
    /\ FLe(detRet.load, One)
    /\ detRet.agentId \notin DOMAIN metrics => detRet.load = Zero

\* a load computed under a derived baseline whose latency is 0, from records
\* whose latency is far above it
C3_Witness ==
  /\ detRet.op = "calculateCognitiveLoad"
  /\ detRet.agentId \in DOMAIN baselines
  /\ baselines[detRet.agentId].latency = Zero
  /\ FLt(Zero, detRet.load)
  /\ \E i \in DOMAIN metrics[detRet.agentId] :
       Len(metrics[detRet.agentId]) - i < LoadWindow
         /\ metrics[detRet.agentId][i].processingLatency = Frac(5000, 1)

\* the mean contextWindowUsage of the agent's last 5 records (fewer if fewer)
RecentContextMean(agentId) ==
  Mean(Field(LastN(metrics[agentId], 5), "contextWindowUsage"))

\* C4: when the mean contextWindowUsage of the last 5 records is >= 0.90,
\* detectOverload returns severity critical and isOverloaded, whatever the
\* later checks find.
C4_CriticalContextStaysCritical ==
  (/\ detRet.op = "detectOverload"
   /\ detRet.agentId \in DOMAIN metrics
   /\ FLe(Frac(90, 100), RecentContextMean(detRet.agentId)))
    => (detRet.overload.severity = "critical" /\ detRet.overload.isOverloaded)

\* a critical context mean followed by an error-rate check that reaches only
\* its warning cutoff
C4_Witness ==
  /\ detRet.op = "detectOverload"
  /\ detRet.agentId \in DOMAIN metrics
  /\ FLe(Frac(90, 100), RecentContextMean(detRet.agentId))
  /\ detRet.overload.factors
       = <<"Critical context window usage", "Elevated error rate">>


CriticalFactors ==
  {"Critical context window usage", "Critical processing latency",
   "Critical error rate", "Critical semantic drift"}

WarningFactors ==
  {"High context window usage", "Elevated processing latency",
   "Elevated error rate", "Significant semantic drift"}

\* the last detectOverload call found a check at its critical cutoff and,
\* after it, only checks at their warning cutoff, at least one
CriticalThenWarning ==
  /\ detRet.op = "detectOverload"
  /\ \E i \in DOMAIN detRet.overload.factors :
       /\ detRet.overload.factors[i] \in CriticalFactors
       /\ i < Len(detRet.overload.factors)
       /\ \A j \in (i + 1)..Len(detRet.overload.factors) :
            detRet.overload.factors[j] \in WarningFactors

\* C14 as stated: a check at its warning cutoff, evaluated after a check at its
\* critical cutoff, resets the severity, and detectOverload returns warning.
C14_LaterWarningResets ==
  CriticalThenWarning => detRet.overload.severity = "warning"

\* C14 as the code has it: a check at its warning cutoff assigns the severity
\* only while it is none, so after a check at its critical cutoff detectOverload
\* returns critical.
C14_LaterWarningKeepsCritical ==
  CriticalThenWarning =>
    (detRet.overload.severity = "critical" /\ detRet.overload.isOverloaded)

\* a critical latency or error rate followed by a drift at its warning cutoff
C14_Witness ==
  /\ CriticalThenWarning
  /\ detRet.overload.factors[1] # "Critical context window usage"
  /\ detRet.overload.factors[Len(detRet.overload.factors)]
       = "Significant semantic drift"

\* the means of the three baseline fields over the records hs
MeansOf(hs) ==
  [latency |-> Mean(Field(hs, "processingLatency")),
   contextUsage |-> Mean(Field(hs, "contextWindowUsage")),
   consistency |-> Mean(Field(hs, "semanticConsistency"))]

\* C15: a recordMetric that leaves the agent with at least 20 records sets the
\* derived baseline to the means over the healthy records among the 50 most
\* recent ones when there are more than 10 of them; otherwise, and with fewer
\* than 20 records, the derived baseline is left as it was.
C15_BaselineFromRecentWindow ==
  [][metrics' # metrics =>
       LET a == detRet'.agentId
           history == metrics'[a]
           healthy == SelectSeq(LastN(history, 50), isHealthy)
       IN  IF Len(history) >= 20 /\ Len(healthy) > 10
             THEN a \in DOMAIN baselines' /\ baselines'[a] = MeansOf(healthy)
             ELSE /\ a \in DOMAIN baselines' <=> a \in DOMAIN baselines
                  /\ a \in DOMAIN baselines => baselines'[a] = baselines[a]]_vars

\* errorRate < 0.05 and semanticConsistency > 0.85
HealthyRecord(m) ==
  FLt(m.errorRate, Frac(5, 100)) /\ FLt(Frac(85, 100), m.semanticConsistency)

\* C16: every derived baseline stored for an agent holds the means over some
\* of that agent's recorded metrics (a run of its healthy records, taken in
\* the order they were recorded), all with errorRate < 0.05 and
\* semanticConsistency > 0.85: no other record contributes to it.
C16_BaselineFromHealthyRecords ==
  \A a \in DOMAIN baselines :
    LET healthy == SelectSeq(recorded[a], HealthyRecord)
    IN  \E i \in 1..Len(healthy) : \E j \in i..Len(healthy) :
          baselines[a] = MeansOf(SubSeq(healthy, i, j))

\* a baseline was written from a history that holds an unhealthy record
C16_Witness ==
  /\ "a1" \in DOMAIN baselines
  /\ detRet.op = "recordMetric"
  /\ \E i \in DOMAIN metrics["a1"] : ~HealthyRecord(metrics["a1"][i])

\* C17: detectOverload and calculateCognitiveLoad leave the metric history and
\* the derived baseline of every agent as they were, for an agent with history
\* and for one without.
C17_DetectionChangesNothing ==
  [][detRet'.op \in {"detectOverload", "calculateCognitiveLoad"}
       => UNCHANGED <<metrics, baselines>>]_vars

\* detection was called for an agent without history or baseline while another
\* agent had both
C17_Witness ==
  /\ detRet.op = "detectOverload"
  /\ detRet.agentId \notin DOMAIN metrics
  /\ detRet.agentId \notin DOMAIN baselines
  /\ DOMAIN baselines # {}

\* what a check finds for a value: which of its two cutoffs the value reaches
Level(value, critical, warning) ==
  IF FLe(critical, value) THEN "critical"
  ELSE IF FLe(warning, value) THEN "warning"
  ELSE "none"

\* the levels of the four checks, in the order context, latency, error, drift,
\* for the agent's last 5 records and its baseline latency (1000 ms by default)
Levels(agentId) ==
  LET recent == LastN(metrics[agentId], 5)
      latency == IF agentId \in DOMAIN baselines THEN baselines[agentId].latency
                 ELSE Frac(1000, 1)
  IN  <<Level(Mean(Field(recent, "contextWindowUsage")),
              Frac(90, 100), Frac(75, 100)),
        Level(Mean(Field(recent, "processingLatency")),
              FMul(latency, Frac(2, 1)), FMul(latency, Frac(3, 2))),
        Level(Mean(Field(recent, "errorRate")), Frac(10, 100), Frac(5, 100)),
        Level(FSub(One, Mean(Field(recent, "semanticConsistency"))),
              Frac(40, 100), Frac(25, 100))>>

\* the factor each check reports at each level
FactorNames ==
  <<[critical |-> "Critical context window usage",
     warning |-> "High context window usage"],
    [critical |-> "Critical processing latency",
     warning |-> "Elevated processing latency"],
    [critical |-> "Critical error rate", warning |-> "Elevated error rate"],
    [critical |-> "Critical semantic drift",
     warning |-> "Significant semantic drift"]>>

\* the factors of the checks i..4 whose level is not none, in order
RECURSIVE FactorsFrom(_, _)
FactorsFrom(levels, i) ==
  IF i > Len(levels) THEN << >>
  ELSE (IF levels[i] = "none" THEN << >> ELSE <<FactorNames[i][levels[i]]>>)
         \o FactorsFrom(levels, i + 1)

\* C25: detectOverload returns the maximum severity over its four checks:
\* critical iff some check reaches its critical cutoff, warning iff none does
\* and some check reaches its warning cutoff, none otherwise; isOverloaded iff
\* the severity is not none iff factors is non-empty; factors holds one entry
\* per check that reached a cutoff, in the order context, latency, error,
\* drift, and recommendations is as long as factors.
C25_SeverityIsMaximum ==
  detRet.op = "detectOverload" =>
    LET out == detRet.overload
        levels == IF detRet.agentId \in DOMAIN metrics
                    THEN Levels(detRet.agentId)
                    ELSE <<"none", "none", "none", "none">>
        some(level) == \E i \in 1..4 : levels[i] = level
    IN  /\ out.severity = "critical" <=> some("critical")
        /\ out.severity = "warning" <=> (~some("critical") /\ some("warning"))
        /\ out.severity = "none" <=> (~some("critical") /\ ~some("warning"))
        /\ out.isOverloaded <=> out.severity # "none"
        /\ out.severity # "none" <=> out.factors # << >>
        /\ out.factors = FactorsFrom(levels, 1)
        /\ Len(out.recommendations) = Len(out.factors)
        /\ Len(out.factors) <= 4

\* three checks exactly at their warning cutoff and none critical
C25_Witness ==
  /\ detRet.op = "detectOverload"
  /\ detRet.overload.severity = "warning"
  /\ detRet.overload.factors
       = <<"High context window usage", "Elevated processing latency",
           "Significant semantic drift">>

\* the number of healthy records in the history ms holds for agentId
HealthyCount(ms, agentId) ==
  IF agentId \in DOMAIN ms THEN Len(SelectSeq(ms[agentId], HealthyRecord)) ELSE 0

\* the baseline a detection for agentId works with: the stored one, and
\* {latency 1000, context 0.40, consistency 0.90} while none is stored
BaselineInUse(agentId) ==
  IF agentId \in DOMAIN baselines THEN baselines[agentId]
  ELSE [latency |-> Frac(1000, 1), contextUsage |-> Frac(40, 100),
        consistency |-> Frac(90, 100)]

\* C28: a stored derived baseline is never removed, and a recordMetric call
\* that leaves 10 or fewer healthy records in the agent's history leaves it as
\* it was; calculateCognitiveLoad and detectOverload work with the stored
\* baseline whenever there is one, and with the default before.
C28_DerivedBaselineKept ==
  [][/\ \A a \in DOMAIN baselines :
          /\ a \in DOMAIN baselines'
          /\ HealthyCount(metrics', a) <= 10 => baselines'[a] = baselines[a]
     /\ \A a \in Agents \ DOMAIN baselines :
          HealthyCount(metrics', a) <= 10 => a \notin DOMAIN baselines'
     /\ (detRet'.op = "calculateCognitiveLoad" /\ detRet'.agentId \in DOMAIN metrics) =>
          detRet'.load
            = calculateCognitiveLoad(metrics,
                (detRet'.agentId :> BaselineInUse(detRet'.agentId)),
                detRet'.agentId)
     /\ (detRet'.op = "detectOverload" /\ detRet'.agentId \in DOMAIN metrics) =>
          detRet'.overload
            = detectOverload(metrics,
                (detRet'.agentId :> BaselineInUse(detRet'.agentId)),
                detRet'.agentId)]_vars

\* the history lost a healthy record and holds 10 of them; the baseline
\* derived earlier is still stored, and a detection has used it
C28_Witness ==
  /\ "a1" \in DOMAIN baselines
  /\ baselines["a1"].latency = Zero
  /\ Len(recorded["a1"]) > 1000
  /\ HealthyCount(metrics, "a1") = 10
  /\ detRet.op = "detectOverload"
  /\ detRet.agentId = "a1"
  /\ detRet.overload.factors[2] = "Critical processing latency"
(***************************************************************************)
(* Claims about ExperimentScheduler (checked under SpecScheduler)          *)
(***************************************************************************)
\* the place of ticket t in the order of execution, 0 while it has not run
Pos(t) ==
  IF \E i \in DOMAIN runOrder : runOrder[i] = t
    THEN CHOOSE i \in DOMAIN runOrder : runOrder[i] = t
    ELSE 0

\* t is run before u: u has not run yet, or t ran earlier
RunsBefore(t, u) == Pos(u) = 0 \/ (Pos(t) # 0 /\ Pos(t) < Pos(u))

\* C6: an experiment scheduled high is run before every entry already queued
\* when it was scheduled, and one scheduled low after every such entry,
\* whatever is scheduled later.
C6_HighFirstLowLast ==
  \A t \in DOMAIN scheduled :
    /\ scheduled[t].priority = "high" =>
         \A u \in scheduled[t].ahead : RunsBefore(t, u)
    /\ scheduled[t].priority = "low" =>
         \A u \in scheduled[t].ahead : RunsBefore(u, t)

\* a high entry scheduled behind two queued entries and a low entry scheduled
\* behind a queued entry, with every scheduled entry run
C6_Witness ==
  /\ \E t \in DOMAIN scheduled :
       scheduled[t].priority = "high" /\ Cardinality(scheduled[t].ahead) >= 2
  /\ \E t \in DOMAIN scheduled :
       scheduled[t].priority = "low" /\ scheduled[t].ahead # {}
  /\ \A t \in DOMAIN scheduled : Pos(t) # 0


\* C11: scheduleExperiment with an id that is not in the catalog fails with the
\* not-found error and leaves the queue, the active set and the completed set
\* as they were.
C11_UnknownIdNotFound ==
  [][\A id \in ScheduleIds \ CatalogIds, priority \in Priorities :
       ScheduleExperiment(id, priority) =>
         /\ schedRet'.threw = "NotFound"
         /\ UNCHANGED <<experimentQueue, activeExperiments, completedExperiments>>]_vars

\* an unknown id was refused while an entry was queued and one was completed
C11_Witness ==
  /\ schedRet.op = "scheduleExperiment"
  /\ schedRet.threw = "NotFound"
  /\ experimentQueue # << >>
  /\ DOMAIN completedExperiments # {}

\* C18: a scheduleExperiment call with a catalog id inserts one entry and
\* keeps the order of the entries already queued: at index 0 for high, at the
\* end for low, at index floor(len / 2) for normal, len being the length of
\* the queue before the call.
C18_InsertedAtItsIndex ==
  [][Len(scheduled') = Len(scheduled) + 1 =>
       LET ticket == Len(scheduled')
           priority == scheduled'[ticket].priority
           len == Len(experimentQueue)
           index == IF priority = "high" THEN 0
                    ELSE IF priority = "low" THEN len
                    ELSE len \div 2
       IN  /\ Len(experimentQueue') = len + 1
           /\ experimentQueue'[index + 1].ticket = ticket
           /\ experimentQueue'[index + 1].id \in CatalogIds
           /\ SubSeq(experimentQueue', 1, index) = SubSeq(experimentQueue, 1, index)
           /\ SubSeq(experimentQueue', index + 2, len + 1)
                = SubSeq(experimentQueue, index + 1, len)]_vars

\* a normal entry was scheduled third and stands between the two queued first
C18_Witness ==
  /\ schedRet.op = "scheduleExperiment"
  /\ Len(experimentQueue) = 3
  /\ scheduled[3].priority = "normal"
  /\ experimentQueue[2].ticket = 3

\* C19: runNextExperiment on a non-empty queue removes the front entry and no
\* other; when it returns, the result is in the completed set under the
\* experiment's id and the experiment is not in the active set; on an empty
\* queue it returns nothing and changes neither the queue nor the two sets.
C19_RunsFrontEntry ==
  [][/\ Len(runOrder') = Len(runOrder) + 1 =>
          /\ experimentQueue # << >>
          /\ experimentQueue' = Tail(experimentQueue)
          /\ runOrder'[Len(runOrder')] = Head(experimentQueue).ticket
     /\ Len(running') < Len(running) =>
          LET call == Head(running)
          IN  /\ schedRet'.returns = "result"
              /\ schedRet'.result = call.result
              /\ call.experiment.id \in DOMAIN completedExperiments'
              /\ completedExperiments'[call.experiment.id].result = call.result
              /\ call.experiment.id \notin DOMAIN activeExperiments'
              /\ UNCHANGED experimentQueue
     /\ (schedRet'.op = "runNextExperiment" /\ experimentQueue = << >>
           /\ running' = running) =>
          /\ schedRet'.returns = "null"
          /\ UNCHANGED <<experimentQueue, activeExperiments,
                         completedExperiments>>]_vars

\* two entries were taken from the front and both runs have returned, while
\* a third entry stays queued
C19_Witness ==
  /\ Len(runOrder) = 2
  /\ running = << >>
  /\ DOMAIN completedExperiments # {}
  /\ DOMAIN activeExperiments = {}
  /\ Len(experimentQueue) = 1

\* C24: getExperimentStatus changes neither the queue nor the active and
\* completed sets, and the queued list it returned holds the same entries after
\* every later scheduleExperiment and runNextExperiment call.
C24_StatusIsSnapshot ==
  [][/\ status' # status =>
          UNCHANGED <<experimentQueue, activeExperiments, completedExperiments>>
     /\ status.pc = "returned" =>
          /\ Elements(status.queued)' = Elements(status.queued)
          /\ status'.active = status.active
          /\ status'.completed = status.completed]_vars

\* C26: the successful scheduleExperiment calls are as many as the queued
\* entries, the runNextExperiment calls in progress and the runNextExperiment
\* calls that returned a result together; every scheduled entry is in exactly
\* one of the three places, once.
C26_EveryEntryAccounted ==
  LET inProgress == [i \in DOMAIN running |-> running[i].experiment.ticket]
      all == [i \in DOMAIN experimentQueue |-> experimentQueue[i].ticket]
               \o inProgress \o returned
  IN  /\ Len(scheduled)
           = Len(experimentQueue) + Len(running) + Len(returned)
      /\ {all[i] : i \in DOMAIN all} = DOMAIN scheduled
      /\ runOrder = returned \o inProgress

\* three entries were scheduled: one is queued, one is being run and one has
\* been run
C26_Witness ==
  /\ Len(scheduled) = 3
  /\ Len(experimentQueue) = 1
  /\ Len(running) = 1
  /\ Len(returned) = 1

\* C27: the active set holds exactly the experiments of the runNextExperiment
\* calls that have started and not finished, and is empty whenever no call is
\* in progress.
C27_ActiveIsInProgress ==
  /\ DOMAIN activeExperiments
       = {running[i].experiment.id : i \in DOMAIN running}
  /\ running = << >> => DOMAIN activeExperiments = {}

\* the ids of the entries queued or being run
PendingIds ==
  {experimentQueue[i].id : i \in DOMAIN experimentQueue}
    \cup {running[i].experiment.id : i \in DOMAIN running}

\* C30: when runNextExperiment keeps being called and finitely many
\* scheduleExperiment calls are made, every scheduled entry is eventually run
\* to its return and its experiment recorded as completed, and the queue is
\* eventually empty for good, whatever the priorities.
C30_EveryScheduledCompletes ==
  /\ \A t \in 1..MaxScheduled :
       (t \in DOMAIN scheduled) ~> (\E i \in DOMAIN returned : returned[i] = t)
  /\ \A id \in CatalogIds :
       (id \in PendingIds) ~> (id \in DOMAIN completedExperiments)
  /\ <>[](experimentQueue = << >>)

\* entries of the three priorities were scheduled and all of them were run
C30_Witness ==
  /\ Len(scheduled) = 3
  /\ {scheduled[t].priority : t \in DOMAIN scheduled} = Priorities
  /\ Len(returned) = 3
  /\ experimentQueue = << >>
  /\ DOMAIN completedExperiments # {}
(***************************************************************************)
(* Claims about ExperimentRunner (checked under SpecCompare)               *)
(***************************************************************************)
\* a >= b as JavaScript evaluates it
XGe(a, b) == ~IsNaN(a) /\ ~IsNaN(b) /\ ~XGt(b, a)

\* the ids of the configurations whose score no other configuration's exceeds
TopIds(results) ==
  {id \in DOMAIN results.vals :
     \A other \in DOMAIN results.vals :
       XGe(calculateScore(results.vals[id]), calculateScore(results.vals[other]))}

\* a compareConfigurations call on a non-empty list has returned
Compared == cmp.pc = "done" /\ cmp.configs # << >>

\* C5: compareConfigurations on a non-empty list of configurations returns as
\* winner the id of a given configuration whose score is >= the score of every
\* other one, the first such configuration of the input list.
C5_WinnerHasTopScore ==
  Compared =>
    /\ cmp.winner \in {cmp.configs[i].id : i \in DOMAIN cmp.configs}
    /\ cmp.winner \in TopIds(cmp.results)
    /\ \A i, j \in DOMAIN cmp.configs :
         (cmp.configs[i].id \in TopIds(cmp.results) /\ cmp.configs[j].id = cmp.winner
            /\ \A k \in 1..(j - 1) : cmp.configs[k].id # cmp.winner)
           => ~(i < j)


\* C12: a mean taken over no records is 0, never NaN: a run that processed no
\* sample reports semanticConsistency, processingLatency and errorRate 0, and
\* calculateCognitiveLoad for an agent without history returns 0.
C12_EmptyMeansAreZero ==
  /\ \A id \in DOMAIN experiments :
       experiments[id].samples = 0 =>
         /\ experiments[id].metrics.semanticConsistency = Zero
         /\ experiments[id].metrics.processingLatency = Zero
         /\ experiments[id].metrics.errorRate = Zero
  /\ (detRet.op = "calculateCognitiveLoad" /\ detRet.agentId \notin DOMAIN metrics)
       => detRet.load = Zero

CountKind(kind, p) == Cardinality({q \in 1..p : events[q].kind = kind})

\* C20: within a compareConfigurations call the runs follow the input list
\* and do not overlap: the j-th baseline established is the j-th
\* configuration's, and it is established, as every metric of that run is
\* recorded, after the runs of the j - 1 configurations before it returned
\* and before any later run began.
C20_RunsAreSequential ==
  api.route = "compare" =>
    \A p \in DOMAIN events :
      LET j == CountKind("establishBaseline", p)
          returnedBefore == CountKind("return", p - 1)
      IN  /\ j \in 1..Len(cmp.configs)
          /\ events[p].id = cmp.configs[j].id
          /\ returnedBefore = j - 1

\* two configurations were compared, and both runs recorded metrics
C20_Witness ==
  /\ api.route = "compare"
  /\ cmp.pc = "done"
  /\ Len(cmp.configs) = 2
  /\ CountKind("return", Len(events)) = 2
  /\ events[2].kind = "recordMetric"
  /\ events[Len(events) - 1].kind = "recordMetric"

\* the position in events of the latest establishBaseline, 0 when there is none
LastBegin ==
  IF \E p \in DOMAIN events : events[p].kind = "establishBaseline"
    THEN CHOOSE p \in DOMAIN events :
           /\ events[p].kind = "establishBaseline"
           /\ \A q \in (p + 1)..Len(events) : events[q].kind # "establishBaseline"
    ELSE 0

\* the events of the latest run after its establishBaseline
SinceBegin == SubSeq(events, LastBegin + 1, Len(events))

\* what the latest run did is what C22 lets it do: the baseline is taken from
\* the first 10 samples (all of them when there are fewer), the k-th sample
\* processed is the one at index 10 + k - 1, an index of the list, and the run
\* returns as samples the number it processed
RunInOrder ==
  LastBegin # 0 =>
    LET n == Len(run.testSamples)
        passes == SelectSeq(SinceBegin, LAMBDA ev : ev.kind = "recordMetric")
    IN  /\ events[LastBegin].arg = (IF n < 10 THEN n ELSE 10)
        /\ \A k \in DOMAIN passes : passes[k].arg = 10 + k - 1 /\ passes[k].arg < n
        /\ \A k \in DOMAIN SinceBegin :
             SinceBegin[k].kind = "return" =>
               /\ k = Len(SinceBegin)
               /\ SinceBegin[k].arg = Len(passes)
               /\ (now - run.startTime >= 60000 \/ Len(passes) = n - 10
                     \/ (n < 10 /\ Len(passes) = 0))
               /\ now - run.startTime < 60000 =>
                    Len(passes) = (IF n > 10 THEN n - 10 ELSE 0)

\* a sample is processed only while the run's time is not up, and a run
\* returns only when its samples are exhausted or its time is up
StopsAtOnce ==
  [][Len(events') = Len(events) + 1 =>
       LET ev == events'[Len(events')]
           goesOn == now - run.startTime < 60000
                       /\ run.sampleIndex < Len(run.testSamples)
       IN  /\ ev.kind = "recordMetric" => goesOn
           /\ ev.kind = "return" => ~goesOn]_vars

\* C22: runExperiment takes the baseline from the first 10 samples, processes
\* the samples at the indices 10, 11, ... in order and each at most once,
\* stops as soon as the samples are exhausted or the elapsed time reaches
\* durationMs, always returns, and reports as result.samples the number of
\* samples it processed: max(0, n - 10) when the time did not run out.
C22_RunInOrderAndTerminates ==
  /\ []RunInOrder
  /\ StopsAtOnce
  /\ (run.pc # "idle") ~> (run.pc = "idle")

\* a run over 12 samples returned after one of its two samples: its time was up
C22_Witness ==
  /\ events # << >>
  /\ events[Len(events)].kind = "return"
  /\ events[Len(events)].arg = 1
  /\ Len(run.testSamples) = 12
  /\ now - run.startTime >= 60000

\* the detector's history for the agent, empty while it has none
History(ms, agentId) == IF agentId \in DOMAIN ms THEN ms[agentId] ELSE << >>

\* C29: every sample a run processes appends exactly one record, the one the
\* run built, to the history of its configuration id; establishing the
\* baseline and returning leave that history as it is, records of earlier
\* runs included; and the cognitiveLoad a run reports is the load over the
\* last 10 records of that history, whichever run wrote them.
C29_HistoryOutlivesRuns ==
  [][Len(events') = Len(events) + 1 =>
       LET ev == events'[Len(events')]
           before == History(metrics, ev.id)
           after == History(metrics', ev.id)
       IN  /\ ev.kind = "recordMetric" =>
                after = Append(before, run'.metrics[Len(run'.metrics)])
           /\ ev.kind # "recordMetric" => after = before
           /\ ev.kind = "return" =>
                experiments'[ev.id].metrics.cognitiveLoad
                  = calculateCognitiveLoad((ev.id :> LastN(before, 10)),
                                           baselines, ev.id)]_vars

\* a second run of a configuration id processed fewer than 10 samples, and
\* the load it reported is not the load over its own records
C29_Witness ==
  /\ events # << >>
  /\ events[Len(events)].kind = "return"
  /\ CountKind("establishBaseline", Len(events)) = 2
  /\ Len(run.metrics) \in 1..9
  /\ Len(History(metrics, run.configuration.id)) > Len(run.metrics)
  /\ experiments[run.configuration.id].metrics.cognitiveLoad
       # calculateCognitiveLoad((run.configuration.id :> run.metrics), baselines,
                                run.configuration.id)

(***************************************************************************)
(* Claims about overlapping runs of the runner (checked under SpecOverlap) *)
(***************************************************************************)

\* the drift of newSample against the profile of the sample list base
DriftAgainst(base, newSample) ==
  calculateDrift(extractTerminology(base), extractTerminology(<<newSample>>))

\* the first samples of the activation r, which its runExperiment call
\* passed to establishBaseline
OwnBaseline(r) == FirstN(r.testSamples, FirstSamples)

\* C21: runExperiment keeps no state of its own for the baseline and the
\* metric history: every pass measures drift against the baseline that the
\* latest establishBaseline call stored for the configuration id, whichever
\* run made that call, and the cognitive load of the result is computed from
\* the records every run has written for the id.  With two overlapping runs
\* of one id, C21_Witness is the reachable state of the claim: a run has
\* measured drift against the other run's baseline and its load comes from
\* records of the other run.
C21_OverlappingRunsShareState ==
  [][/\ (run.pc = "test" /\ run'.pc = "await") =>
          LET id == run.configuration.id
              sample == run.testSamples[run.sampleIndex + 1]
          IN  /\ id \in DOMAIN established
              /\ run'.driftMeasurements[Len(run'.driftMeasurements)]
                   = DriftAgainst(established[id], sample)
     /\ (run.pc = "test" /\ run'.pc = "idle") =>
          LET id == run.configuration.id
          IN  experiments'[id].metrics.cognitiveLoad
                = calculateCognitiveLoad((id :> History(recorded, id)),
                                         baselines, id)]_vars

\* the run that has just returned overlapped a run of the same id that is
\* still suspended; its last pass measured drift against the other run's
\* baseline and not its own, and the window of its load holds a record the
\* other run wrote, so the load is not that of its own records
C21_Witness ==
  /\ run.pc = "idle"
  /\ parked.pc = "await"
  /\ run.configuration.id = parked.configuration.id
  /\ Len(run.driftMeasurements) > 0
  /\ LET id == run.configuration.id
         k == Len(run.driftMeasurements)
         sample == run.testSamples[FirstSamples + k]
         window == getRecentMetrics(metrics, id, LoadWindow)
     IN  /\ OwnBaseline(run) # OwnBaseline(parked)
         /\ run.driftMeasurements[k] = DriftAgainst(OwnBaseline(parked), sample)
         /\ run.driftMeasurements[k] # DriftAgainst(OwnBaseline(run), sample)
         /\ \E j \in 1..Len(window) :
              /\ \E p \in 1..Len(parked.metrics) : parked.metrics[p] = window[j]
              /\ \A q \in 1..Len(run.metrics) : run.metrics[q] # window[j]
         /\ experiments[id].metrics.cognitiveLoad
              = calculateCognitiveLoad(metrics, baselines, id)
         /\ experiments[id].metrics.cognitiveLoad
              # calculateCognitiveLoad((id :> run.metrics), baselines, id)

\* what the map m holds for agentId: <<value>>, or << >> when it has no entry
Entry(m, agentId) == IF agentId \in DOMAIN m THEN <<m[agentId]>> ELSE << >>

\* the step leaves the drift baseline, the metric history and the derived
\* baseline of agentId as they are
AgentKept(agentId) ==
  /\ Entry(baseline', agentId) = Entry(baseline, agentId)
  /\ Entry(metrics', agentId) = Entry(metrics, agentId)
  /\ Entry(baselines', agentId) = Entry(baselines, agentId)

\* the call of runExperiment r, made after the first state, ran as if alone:
\* the id's baseline is that of r's own first samples, every drift it
\* measured is the drift against that baseline, and the id's history and
\* derived baseline are those that r's records alone, fed in order to the
\* detector of the first state, give
RanAsIfAlone(r) ==
  LET id == r.configuration.id
      alone == FeedMetrics([metrics |-> PriorDetector.metrics,
                            baselines |-> PriorDetector.baselines],
                           r.metrics, 1, Len(r.metrics))
  IN  /\ Entry(baseline, id) = <<baselineEntry(EmptyMap, id, OwnBaseline(r))>>
      /\ \A k \in 1..Len(r.driftMeasurements) :
           r.driftMeasurements[k]
             = DriftAgainst(OwnBaseline(r), r.testSamples[FirstSamples + k])
      /\ Entry(metrics, id) = Entry(alone.metrics, id)
      /\ Entry(baselines, id) = Entry(alone.baselines, id)

\* C23: a step that calls establishBaseline, measureDrift or recordMetric
\* for one configuration id leaves the drift baseline, the metric history
\* and the derived baseline of every other id as they are, and a step that
\* calls none of them leaves those of every id as they are; so when two
\* overlapping runs have distinct ids, each id has the baseline, the drift
\* values, the history and the derived baseline of its run made alone.
C23_StateIsKeyedByAgent ==
  /\ [][IF Len(events') > Len(events)
             /\ events'[Len(events')].kind \in {"establishBaseline",
                                                "recordMetric"}
          THEN \A other \in Agents \ {events'[Len(events')].id} :
                 AgentKept(other)
          ELSE \A agentId \in Agents : AgentKept(agentId)]_vars
  /\ [](\A r \in {run, parked} \ {NoRun, PriorRun} :
          (parked = NoRun \/ run.configuration.id # parked.configuration.id)
            => RanAsIfAlone(r))

\* two runs with distinct ids have both returned after interleaved passes
\* (a pass of one between two passes of the other), and the id that had
\* records before has a derived baseline
C23_Witness ==
  /\ run.pc = "idle"
  /\ parked.pc = "idle"
  /\ parked # NoRun
  /\ run.configuration.id # parked.configuration.id
  /\ Len(run.metrics) > 0
  /\ Len(parked.metrics) > 0
  /\ PriorConfig.id \in DOMAIN baselines
  /\ \E i, j, k \in 1..Len(events) :
       /\ i < j
       /\ j < k
       /\ events[i].kind = "recordMetric"
       /\ events[j].kind = "recordMetric"
       /\ events[k].kind = "recordMetric"
       /\ events[i].id = events[k].id
       /\ events[j].id # events[i].id
====
